---- MODULE Spec2Model ----
(***************************************************************************)
(* A model of the Neo4j reconciliation tool of src/neo4j_diff.py: the      *)
(* equivalence checker, the batch fetcher, the cardinality counter and the *)
(* comparator (full_comparison).                                           *)
(*                                                                         *)
(* Representation.  A property value is a record [t, v]: t is its type     *)
(* ("int" or "str") and v its decimal / literal rendering, so that Python's *)
(* str(value) is the projection .v while equality (Python's == and         *)
(* Cypher's =) compares type and rendering.  An Optional[Dict] is << >>    *)
(* for None and <<m>> for the dict m, m a function from property names.    *)
(***************************************************************************)
EXTENDS Integers, Sequences, FiniteSets, TLC

VARIABLES
    pc,        \* position of the modelled call or run
    args,      \* arguments of the call under way (a record)
    ret,       \* value the call returned
    nodes,     \* nodes[side]: the nodes stored at that endpoint
    rels,      \* rels[side][type]: how many relationships of the type it stores
    queries    \* the queries issued so far, as [side, kind, label, prop]: a
               \* batch fetch or key listing by prop, or a count of nodes
               \* or relationships (prop names which)

    ,
    todo,          \* full_comparison: the labels its loop has yet to visit
    cur,           \* sample_node_comparison under way: label, keys left, comparison
    faults,        \* how many queries may still raise in the run
    progress_bar,  \* the overall progress bar: total, n, closed
    exit_code      \* exit status of the process once the CLI has ended

runvars == <<todo, cur, faults, progress_bar, exit_code>>
vars == <<pc, args, ret, nodes, rels, queries, todo, cur, faults, progress_bar, exit_code>>

----------------------------------------------------------------------------
(* Values and property maps *)

Sides == {"source", "target"}

IntVal(s) == [t |-> "int", v |-> s]
StrVal(s) == [t |-> "str", v |-> s]

\* str(value), as used on record['id'] (lines 265 and 563)
PyStr(val) == val.v

None == << >>
Some(m) == <<m>>
IsNone(x) == x = None

\* the empty dict
EmptyMap == [k \in {} |-> IntVal("0")]

\* Python truthiness of an Optional[Dict]: None and {} are both falsy
Falsy(x) == IsNone(x) \/ DOMAIN x[1] = {}

\* {k: v for k, v in m.items() if k not in drop}
Without(m, drop) == [k \in (DOMAIN m) \ drop |-> m[k]]

----------------------------------------------------------------------------
(* The stored graphs *)

PWC_NODE_TYPES == <<"Paper", "Repository", "Dataset", "Task", "Author">>

Range(seq) == {seq[i] : i \in DOMAIN seq}

Node(l, m) == [label |-> l, props |-> m]

\* The nodes an endpoint may hold: string and integer identifiers, the same
\* key with equal, volatile-only-different and different content, a node
\* identified by its name only, papers identified by arxiv_id or by title,
\* and a label outside the Papers-with-Code types.
NodePool ==
    { Node("Dataset", [id |-> StrVal("1"), name |-> StrVal("a")]),
      Node("Dataset", [id |-> StrVal("1"), name |-> StrVal("a"), updated_at |-> StrVal("t")]),
      Node("Dataset", [id |-> StrVal("1"), name |-> StrVal("b")]),
      Node("Dataset", [id |-> IntVal("1")]),
      Node("Dataset", [id |-> StrVal("2")]),
      Node("Dataset", [name |-> StrVal("1")]),
      Node("Paper",   [arxiv_id |-> StrVal("1"), id |-> StrVal("2")]),
      Node("Paper",   [title |-> StrVal("1"), id |-> StrVal("1")]),
      Node("Widget",  [id |-> StrVal("1")]) }

\* Relationships are counted only, so an endpoint's relationships are kept as
\* their number per type (none of them a self-loop).
PWC_RELATIONSHIP_TYPES == <<"AUTHORED", "HAS_CODE", "USES_DATASET", "ADDRESSES_TASK">>
MaxRels == 1
GraphRelTypes == {"AUTHORED", "CITES"}
RelStores == [GraphRelTypes -> 0..MaxRels]
NoRels == [t \in GraphRelTypes |-> 0]

PoolLabels == {n.label : n \in NodePool}
PoolProps == {n.props : n \in NodePool}
\* the key strings a caller may pass: every rendering of a stored value
PoolKeys == {"1", "2", "a"}

\* no comparison run is under way (the single functions are called alone)
NoCur == [label |-> "none"]
\* the overall bar of full_comparison (its total, its updates, its close
\* calls) and the detailed per-type bars created and closed
NoBar == [total |-> 0, n |-> 0, closed |-> 0,
          detailed_opened |-> 0, detailed_closed |-> 0]
\* the process has not ended
NotExited == -1
NoRun ==
    /\ todo = {}
    /\ cur = NoCur
    /\ faults = 0
    /\ progress_bar = NoBar
    /\ exit_code = NotExited

----------------------------------------------------------------------------
(* Equivalence checker *)

ignore_fields == {"updated_at", "created_at", "last_modified", "timestamp"}

\* A slip that compares source against the unfiltered target map.
nodes_are_equivalent_OneSided(a, b) ==
    IF Falsy(a) /\ Falsy(b) THEN TRUE
    ELSE IF Falsy(a) THEN FALSE
    ELSE IF Falsy(b) THEN a[1] = EmptyMap
    ELSE Without(a[1], ignore_fields) = b[1]

nodes_are_equivalent(a, b) ==
    IF Falsy(a) /\ Falsy(b) THEN TRUE
    ELSE IF Falsy(a) \/ Falsy(b) THEN FALSE
    ELSE Without(a[1], ignore_fields) = Without(b[1], ignore_fields)

\* Bounded inputs of the checker
MaxProps == 2
EqFields == {"title", "name"} \cup ignore_fields
EqValues == {IntVal("1"), StrVal("1")}
EqMaps == UNION {[d -> EqValues] : d \in {s \in SUBSET EqFields : Cardinality(s) <= MaxProps}}
EqInputs == {None} \cup {Some(m) : m \in EqMaps}

InitEquiv ==
    /\ pc = "eq_call"
    /\ args \in [source_data : EqInputs, target_data : EqInputs]
    /\ ret = FALSE
    /\ nodes = [side \in Sides |-> {}]
    /\ rels = [side \in Sides |-> NoRels]
    /\ queries = {}
    /\ NoRun

CallEquivalent ==
    /\ pc = "eq_call"
    /\ ret' = nodes_are_equivalent(args.source_data, args.target_data)
    /\ pc' = "eq_done"
    /\ UNCHANGED <<args, nodes, rels, queries, runvars>>

NextEquiv == CallEquivalent

SpecEquiv == InitEquiv /\ [][NextEquiv]_vars

----------------------------------------------------------------------------
(* Batch fetcher *)

\* candidate identifying properties of get_batch_node_data
batch_id_properties(label) ==
    IF label = "Paper" THEN <<"arxiv_id", "url", "title", "id">>
    ELSE <<"id", "arxiv_id", "url", "name">>

\* Rows of  UNWIND $node_ids AS node_id MATCH (n:label)
\*          WHERE n.prop = node_id RETURN n.prop as id, n
\* node_ids are strings; the store's equality holds between values of the
\* same type only, so an integer property never equals a string parameter.
BatchRows(store, label, prop, node_ids) ==
    {n \in store : /\ n.label = label
                   /\ prop \in DOMAIN n.props
                   /\ n.props[prop] \in {StrVal(k) : k \in node_ids}}

\* for record in result: batch_data[str(record['id'])] = dict(record['n'])
\* The rows come in no specified order: of several rows with one key the
\* last one read stays, and it may be any of them.
RECURSIVE RecordedKeys(_, _, _, _)
RecordedKeys(bd, rows, prop, ks) ==
    IF ks = {} THEN {bd}
    ELSE LET k == CHOOSE x \in ks : TRUE
         IN {[j \in DOMAIN f \cup {k} |-> IF j = k THEN n.props ELSE f[j]] :
                f \in RecordedKeys(bd, rows, prop, ks \ {k}),
                n \in {r \in rows : PyStr(r.props[prop]) = k}}

Recorded(bd, rows, prop) ==
    LET keys == {PyStr(n.props[prop]) : n \in rows}
        rowsOf(k) == {r \in rows : PyStr(r.props[prop]) = k}
        single == {k \in keys : Cardinality(rowsOf(k)) = 1}
        \* the keys only one row renders
        settled == [j \in DOMAIN bd \cup single |->
                      IF j \in single THEN (CHOOSE r \in rowsOf(j) : TRUE).props
                      ELSE bd[j]]
    IN RecordedKeys(settled, rows, prop, keys \ single)

\* The loop over id_properties from position i on.  failing is the set of
\* properties whose query raises: such a query may have delivered any part of
\* its rows before it raised, and the loop continues with the next property.
\* A query that returns stops the loop as soon as batch_data is not empty.
RECURSIVE BatchFrom(_, _, _, _, _, _, _)
BatchFrom(store, label, node_ids, i, bd, tried, failing) ==
    LET props == batch_id_properties(label) IN
    IF i > Len(props) THEN {[data |-> bd, tried |-> tried]}
    ELSE LET p == props[i]
             rows == BatchRows(store, label, p, node_ids)
             t2 == tried \cup {p}
         IN IF p \in failing
            THEN UNION { BatchFrom(store, label, node_ids, i + 1, bd2, t2, failing) :
                           bd2 \in UNION {Recorded(bd, seen, p) : seen \in SUBSET rows} }
            ELSE UNION { IF DOMAIN bd2 # {}
                         THEN {[data |-> bd2, tried |-> t2]}
                         ELSE BatchFrom(store, label, node_ids, i + 1, bd2, t2, failing) :
                           bd2 \in Recorded(bd, rows, p) }

\* Fill in None for missing nodes
FillNone(o, node_ids) ==
    [data |-> [k \in node_ids \cup DOMAIN o.data |->
                 IF k \in DOMAIN o.data THEN Some(o.data[k]) ELSE None],
     tried |-> o.tried]

\* A slip that drops the early return on an empty key list.
get_batch_node_data_NoGuard(store, label, node_ids, failing) ==
    {FillNone(o, node_ids) :
        o \in BatchFrom(store, label, node_ids, 1, EmptyMap, {}, failing)}

\* The outcomes of get_batch_node_data(session, label, node_ids) on a store:
\* data is the returned map and tried the properties it queried.
get_batch_node_data(store, label, node_ids, failing) ==
    IF node_ids = {} THEN {[data |-> EmptyMap, tried |-> {}]}
    ELSE {FillNone(o, node_ids) :
            o \in BatchFrom(store, label, node_ids, 1, EmptyMap, {}, failing)}

BatchQueries(side, label, tried) ==
    {[side |-> side, kind |-> "batch", label |-> label, prop |-> p] : p \in tried}

InitBatch ==
    /\ pc = "batch_call"
    /\ args = [session |-> "source"]
    /\ ret = EmptyMap
    /\ nodes \in [Sides -> SUBSET NodePool]
    /\ nodes["target"] = {}
    /\ rels = [side \in Sides |-> NoRels]
    /\ queries = {}
    /\ NoRun

CallBatch ==
    /\ pc = "batch_call"
    /\ \E session \in Sides, label \in {"Paper", "Dataset"},
          node_ids \in SUBSET PoolKeys :
       \E failing \in SUBSET Range(batch_id_properties(label)) :
       \E o \in get_batch_node_data(nodes[session], label, node_ids, failing) :
          /\ args' = [session |-> session, label |-> label,
                      node_ids |-> node_ids, failing |-> failing]
          /\ ret' = o.data
          /\ queries' = queries \cup BatchQueries(session, label, o.tried)
    /\ pc' = "batch_done"
    /\ UNCHANGED <<nodes, rels, runvars>>

NextBatch == CallBatch

SpecBatch == InitBatch /\ [][NextBatch]_vars

----------------------------------------------------------------------------
(* Cardinality counter *)

Max(a, b) == IF a >= b THEN a ELSE b

\* CALL db.labels() / CALL db.relationshipTypes(): the types in use
db_labels(store) == {n.label : n \in store}
db_relationshipTypes(relstore) == {t \in DOMAIN relstore : relstore[t] > 0}

\* MATCH (n:label): one match per node carrying the label
NodeMatches(store) ==
    [l \in db_labels(store) |-> Cardinality({n \in store : n.label = l})]

\* MATCH ()-[r:type]-(): the pattern has no direction, so every relationship
\* matches once from each of its two ends
RelMatches(relstore) ==
    [t \in db_relationshipTypes(relstore) |-> 2 * relstore[t]]

\* Rows of  OPTIONAL MATCH <p0> OPTIONAL MATCH <p1> ... : each clause extends
\* every row built so far by all the matches of its own pattern (by one null
\* when it has none), so the rows are the product of the patterns' matches.
RECURSIVE CombinedRows(_, _)
CombinedRows(matches, types) ==
    IF types = {} THEN 1
    ELSE LET t == CHOOSE x \in types : TRUE
         IN Max(1, matches[t]) * CombinedRows(matches, types \ {t})

\* RETURN count(n_i) AS count_i: the rows in which n_i is not null
CombinedCount(matches, types, t) ==
    IF matches[t] = 0 THEN 0 ELSE CombinedRows(matches, types)

\* MATCH <pattern of t> RETURN count(x) as count
SingleCount(matches, t) == matches[t]

\* A slip that lets one failed per-type query zero the whole map.
FallbackCount_AllOrNothing(matches, t, failed) ==
    IF failed # {} THEN 0 ELSE SingleCount(matches, t)

\* the fallback loop: each type is counted by its own query, a query that
\* raises leaves 0 for its type
FallbackCount(matches, t, failed) ==
    IF t \in failed THEN 0 ELSE SingleCount(matches, t)

\* A slip that leaves out the allow-listed types missing from the schema.
CountedTypes_NoFill(allow, types, pwc_only) == types

\* the keys of the returned map: in PWC-only mode "add any missing PWC
\* types with 0 count"
CountedTypes(allow, types, pwc_only) ==
    IF pwc_only THEN types \cup Range(allow) ELSE types

\* the types to count: the discovered ones, in PWC-only mode those of the
\* allow-list among them
ListedTypes(allow, discovered, pwc_only) ==
    IF pwc_only THEN {t \in Range(allow) : t \in discovered} ELSE discovered

\* get_node_counts and get_relationship_counts are the same code over the
\* two kinds of type.  fail says which queries raise: the discovery query
\* (outside any try), the combined query, and the per-type queries in single.
get_counts(allow, discovered, matches, pwc_only, fail) ==
    IF fail.discovery
    THEN [raised |-> TRUE, counts |-> EmptyMap, path |-> "none",
          asked |-> {[kind |-> "schema", label |-> "*"]},
          failed |-> {[kind |-> "schema", label |-> "*"]}]
    ELSE
      LET types == ListedTypes(allow, discovered, pwc_only)
          keys == CountedTypes(allow, types, pwc_only)
          counted(t) ==
              IF ~fail.combined THEN CombinedCount(matches, types, t)
              ELSE FallbackCount(matches, t, fail.single)
      IN [raised |-> FALSE,
          counts |-> [t \in keys |-> IF t \in types THEN counted(t) ELSE 0],
          path |-> IF types = {} THEN "none"
                   ELSE IF fail.combined THEN "fallback" ELSE "combined",
          asked |-> {[kind |-> "schema", label |-> "*"]}
                    \cup (IF types = {} THEN {}
                          ELSE {[kind |-> "count_all", label |-> "*"]})
                    \cup (IF fail.combined
                          THEN {[kind |-> "count", label |-> t] : t \in types}
                          ELSE {}),
          failed |-> (IF types # {} /\ fail.combined
                      THEN {[kind |-> "count_all", label |-> "*"]} ELSE {})
                     \cup (IF fail.combined
                           THEN {[kind |-> "count", label |-> t] : t \in types \cap fail.single}
                           ELSE {})]

\* the queries of a counting call, as entries of the query log
CountQueries(side, kind, asked) ==
    {[side |-> side, kind |-> q.kind, label |-> q.label, prop |-> kind] : q \in asked}

\* the log entry of a query that raised, by the kind of the query
RaisedKind ==
    [schema |-> "schema_raised", count_all |-> "count_all_raised",
     count |-> "count_raised", ids |-> "ids_raised",
     batch |-> "batch_raised", detail |-> "detail_raised"]
Raised(entries) == {[q EXCEPT !.kind = RaisedKind[q.kind]] : q \in entries}

get_node_counts(store, pwc_only, fail) ==
    get_counts(PWC_NODE_TYPES, db_labels(store), NodeMatches(store), pwc_only, fail)

get_relationship_counts(relstore, pwc_only, fail) ==
    get_counts(PWC_RELATIONSHIP_TYPES, db_relationshipTypes(relstore),
               RelMatches(relstore), pwc_only, fail)

\* the ways the queries of one counting call can fail
CountFailures(types) ==
    [discovery : BOOLEAN, combined : BOOLEAN, single : SUBSET types]

InitCount ==
    /\ pc = "count_call"
    /\ args = [session |-> "source"]
    /\ ret = EmptyMap
    /\ nodes \in [Sides -> SUBSET NodePool]
    /\ nodes["target"] = {}
    /\ rels \in [Sides -> RelStores]
    /\ rels["target"] = NoRels
    /\ queries = {}
    /\ NoRun

CallNodeCounts ==
    /\ pc = "count_call"
    /\ \E pwc_only \in BOOLEAN, fail \in CountFailures(PoolLabels) :
          /\ args' = [session |-> "source", kind |-> "node",
                      pwc_only |-> pwc_only, fail |-> fail]
          /\ ret' = get_node_counts(nodes["source"], pwc_only, fail)
          /\ queries' = queries \cup CountQueries("source", "node", ret'.asked)
    /\ pc' = "count_done"
    /\ UNCHANGED <<nodes, rels, runvars>>

CallRelationshipCounts ==
    /\ pc = "count_call"
    /\ \E pwc_only \in BOOLEAN, fail \in CountFailures(GraphRelTypes) :
          /\ args' = [session |-> "source", kind |-> "relationship",
                      pwc_only |-> pwc_only, fail |-> fail]
          /\ ret' = get_relationship_counts(rels["source"], pwc_only, fail)
          /\ queries' = queries \cup CountQueries("source", "relationship", ret'.asked)
    /\ pc' = "count_done"
    /\ UNCHANGED <<nodes, rels, runvars>>

NextCount == CallNodeCounts \/ CallRelationshipCounts

SpecCount == InitCount /\ [][NextCount]_vars

----------------------------------------------------------------------------
(* Identity resolver and single-entity fetch *)

Min(a, b) == IF a <= b THEN a ELSE b

\* candidate identifying properties of get_node_ids_by_label
ids_id_properties(label) ==
    IF label = "Paper" THEN <<"arxiv_id", "url", "title">>
    ELSE <<"id", "arxiv_id", "url", "name">>

\* MATCH (n:label) WHERE n.prop IS NOT NULL RETURN n.prop as id
IdRows(store, label, prop) ==
    {n \in store : n.label = label /\ prop \in DOMAIN n.props}

\* the subsets of S with j elements
RECURSIVE KSubsets(_, _)
KSubsets(S, j) ==
    IF j = 0 THEN {{}}
    ELSE UNION {{T \cup {x} : x \in S \ T} : T \in KSubsets(S, j - 1)}

\* any k elements of S, all of S when it has no more than k (the larger
\* choices are made by what is left out)
Taking(S, k) ==
    LET n == Cardinality(S)
    IN IF n <= k THEN {S}
       ELSE IF 2 * k <= n THEN KSubsets(S, k)
       ELSE {S \ D : D \in KSubsets(S, n - k)}

\* A slip that leaves the LIMIT out of the query.
Limited_Unbounded(rows, k) == {rows}

\* LIMIT k: any k of the rows, all of them when there are no more than k
Limited(rows, k) == Taking(rows, k)

\* The loop over id_properties from position i on: a property whose query
\* raises is skipped, the first one with a non-empty result is adopted.
RECURSIVE IdsFrom(_, _, _, _, _, _)
IdsFrom(store, label, batch_size, i, tried, failing) ==
    LET props == ids_id_properties(label) IN
    IF i > Len(props)
    THEN {[ids |-> {}, tried |-> tried, prop |-> "none", raised |-> FALSE]}
    ELSE LET p == props[i]
             t2 == tried \cup {p}
         IN IF p \in failing
            THEN IdsFrom(store, label, batch_size, i + 1, t2, failing)
            ELSE UNION { LET batch_ids == {PyStr(n.props[p]) : n \in S}
                         IN IF batch_ids # {}
                            THEN {[ids |-> batch_ids, tried |-> t2, prop |-> p,
                                   raised |-> FALSE]}
                            ELSE IdsFrom(store, label, batch_size, i + 1, t2, failing) :
                           S \in Limited(IdRows(store, label, p), batch_size) }

\* A slip that leaves out the try/except around the query: the first
\* query that raises ends the call with its exception.
get_node_ids_by_label_NoTry(store, label, batch_size, failing) ==
    {IF o.tried \cap failing = {} THEN o
     ELSE [ids |-> {}, tried |-> o.tried, prop |-> "none", raised |-> TRUE] :
        o \in IdsFrom(store, label, batch_size, 1, {}, failing)}

\* the call returns the keys; raised says whether it ended with an
\* exception instead, which the except clause of lines 269-270 rules out
get_node_ids_by_label(store, label, batch_size, failing) ==
    IdsFrom(store, label, batch_size, 1, {}, failing)

\* the queries of a key listing, batch fetch or single fetch
PropQueries(side, kind, label, tried) ==
    {[side |-> side, kind |-> kind, label |-> label, prop |-> p] : p \in tried}

\* the page sizes of the single calls
IdsPages == {1, 2}

InitIds ==
    /\ pc = "ids_call"
    /\ args = [session |-> "source"]
    /\ ret = [ids |-> {}, raised |-> FALSE]
    /\ nodes \in [Sides -> SUBSET NodePool]
    /\ nodes["target"] = {}
    /\ rels = [side \in Sides |-> NoRels]
    /\ queries = {}
    /\ NoRun

\* one call get_node_ids_by_label(session, label, batch_size); failing is
\* the set of the candidate properties whose query raises
CallIds ==
    /\ pc = "ids_call"
    /\ \E session \in Sides, label \in {"Paper", "Dataset"}, batch_size \in IdsPages :
       \E failing \in SUBSET Range(ids_id_properties(label)) :
       \E o \in get_node_ids_by_label(nodes[session], label, batch_size, failing) :
          /\ args' = [session |-> session, label |-> label,
                      batch_size |-> batch_size, failing |-> failing]
          /\ ret' = [ids |-> o.ids, raised |-> o.raised]
          /\ queries' = queries \cup PropQueries(session, "ids", label, o.tried)
    /\ pc' = "ids_done"
    /\ UNCHANGED <<nodes, rels, runvars>>

NextIds == CallIds

SpecIds == InitIds /\ [][NextIds]_vars

\* candidate identifying properties of get_detailed_node_data
detail_id_properties == <<"id", "arxiv_id", "url", "name">>

\* MATCH (n:label) WHERE n.prop = $id RETURN n   ($id is a string)
DetailRows(store, label, prop, node_id) ==
    {n \in store : /\ n.label = label
                   /\ prop \in DOMAIN n.props
                   /\ n.props[prop] = StrVal(node_id)}

\* result.single() on several rows yields one of them or raises, depending
\* on the driver; a raise moves on to the next property like a failed query.
RECURSIVE DetailFrom(_, _, _, _, _, _)
DetailFrom(store, label, node_id, i, tried, failing) ==
    IF i > Len(detail_id_properties) THEN {[data |-> None, tried |-> tried]}
    ELSE LET p == detail_id_properties[i]
             t2 == tried \cup {p}
             rows == DetailRows(store, label, p, node_id)
             next == DetailFrom(store, label, node_id, i + 1, t2, failing)
         IN IF p \in failing \/ rows = {} THEN next
            ELSE {[data |-> Some(n.props), tried |-> t2] : n \in rows}
                 \cup (IF Cardinality(rows) > 1 THEN next ELSE {})

get_detailed_node_data(store, label, node_id, failing) ==
    DetailFrom(store, label, node_id, 1, {}, failing)

----------------------------------------------------------------------------
(* Comparator: compare_*_counts, sample_node_comparison, full_comparison *)

MaxNodes == 2       \* nodes an endpoint holds at most
MaxFaults == 1      \* queries that raise in one run at most (SpecFaults)
MaxFaultNodes == 1  \* nodes an endpoint holds at most in the runs with failures
SampleSize == 1     \* --sample
BatchSize == 1      \* --batch-size
FullDiffPage == 100000
SamplePageFloor == 1000
SlowBatch == 10
ReportLimit == 100

Stores == {S \in SUBSET NodePool : Cardinality(S) <= MaxNodes}

CountOf(counts, t) == IF t \in DOMAIN counts THEN counts[t] ELSE 0

RECURSIVE SumCounts(_)
SumCounts(counts) ==
    IF DOMAIN counts = {} THEN 0
    ELSE LET t == CHOOSE x \in DOMAIN counts : TRUE
         IN counts[t] + SumCounts([u \in DOMAIN counts \ {t} |-> counts[u]])

\* the comparison table of compare_node_counts / compare_relationship_counts
compare_counts(source_counts, target_counts) ==
    LET all == DOMAIN source_counts \cup DOMAIN target_counts
        sc(t) == CountOf(source_counts, t)
        tc(t) == CountOf(target_counts, t)
    IN [source_counts |-> source_counts,
        target_counts |-> target_counts,
        differences |-> [t \in {u \in all : sc(u) # tc(u)} |->
                           [source |-> sc(t), target |-> tc(t),
                            difference |-> tc(t) - sc(t)]],
        missing_in_target |-> {t \in all : sc(t) > 0 /\ tc(t) = 0},
        missing_in_source |-> {t \in all : sc(t) = 0 /\ tc(t) > 0},
        identical_counts |-> {t \in all : sc(t) = tc(t)}]

NoCounts == compare_counts(EmptyMap, EmptyMap)

\* comparison_result before anything is computed
NoResult ==
    [node_comparison |-> NoCounts,
     relationship_comparison |-> NoCounts,
     sample_comparisons |-> EmptyMap,
     summary |-> EmptyMap]

\* how many queries a counting call's failure choice makes raise; only the
\* failures the call gets to are chosen
FaultCount(fail) ==
    (IF fail.discovery THEN 1 ELSE 0) + (IF fail.combined THEN 1 ELSE 0)
        + Cardinality(fail.single)
Reached(fail) ==
    /\ fail.discovery => ~fail.combined
    /\ ~fail.combined => fail.single = {}
NoFail == [discovery |-> FALSE, combined |-> FALSE, single |-> {}]

Init ==
    /\ pc = "Init"
    /\ args \in [pwc_only : BOOLEAN, full_diff : BOOLEAN,
                  sample_size : {SampleSize}, batch_size : {BatchSize},
                  has_tqdm : {TRUE}]
    /\ ret = NoResult
    /\ nodes \in [Sides -> Stores]
    /\ rels \in [Sides -> RelStores]
    /\ \A side \in Sides : rels[side]["CITES"] = 0
    /\ queries = {}
    /\ NoRun

\* the runs in which queries may raise, over smaller stores
InitFaults ==
    /\ pc = "Init"
    /\ args \in [pwc_only : BOOLEAN, full_diff : BOOLEAN,
                  sample_size : {SampleSize}, batch_size : {BatchSize},
                  has_tqdm : {TRUE}]
    /\ ret = NoResult
    /\ nodes \in [Sides -> {S \in Stores : Cardinality(S) <= MaxFaultNodes}]
    /\ rels \in [Sides -> RelStores]
    /\ \A side \in Sides : rels[side]["CITES"] = 0
    /\ queries = {}
    /\ todo = {}
    /\ cur = NoCur
    /\ faults = MaxFaults
    /\ progress_bar = NoBar
    /\ exit_code = NotExited

\* lines 601-623: the preview of the labels (its failure is absorbed) and
\* the overall progress bar
StartComparison ==
    /\ pc = "Init"
    /\ \E failed \in {"none"} \cup (IF args.pwc_only \/ faults = 0
                                    THEN {} ELSE Sides) :
         LET preview == IF args.pwc_only THEN Range(PWC_NODE_TYPES)
                        ELSE IF failed # "none" THEN {}
                        ELSE db_labels(nodes["source"]) \cup db_labels(nodes["target"])
             asked == IF args.pwc_only THEN {}
                      ELSE IF failed = "source" THEN {"source"} ELSE Sides
         IN /\ progress_bar' = [NoBar EXCEPT !.total = 2 + Cardinality(preview)]
            /\ queries' = queries \cup
                  {[side |-> sd, kind |-> "schema", label |-> "*", prop |-> "preview"] :
                      sd \in asked}
                  \cup Raised({[side |-> sd, kind |-> "schema", label |-> "*",
                                prop |-> "preview"] : sd \in {failed} \cap Sides})
            /\ faults' = faults - (IF failed = "none" THEN 0 ELSE 1)
    /\ pc' = "CountNodes"
    /\ UNCHANGED <<args, ret, nodes, rels, todo, cur, exit_code>>

\* A slip that swallows the exception and returns the result as it stands.
RunFails_Swallowed ==
    /\ pc' = "Done"
    /\ progress_bar' = [progress_bar EXCEPT !.closed = @ + 1]
    /\ UNCHANGED <<ret, todo>>

\* except Exception as e: progress_bar.close(); raise e
RunFails ==
    /\ pc' = "Failed"
    /\ progress_bar' = [progress_bar EXCEPT !.closed = @ + 1]
    /\ UNCHANGED <<ret, todo>>

\* self.get_node_counts(session) / self.get_relationship_counts(session)
CountsOf(kind, side, fail) ==
    IF kind = "node" THEN get_node_counts(nodes[side], args.pwc_only, fail)
    ELSE get_relationship_counts(rels[side], args.pwc_only, fail)

\* compare_node_counts / compare_relationship_counts inside full_comparison:
\* source is counted, then target; a raising count ends the run
CountBothSides(kind, types, next_pc) ==
    \E fs \in CountFailures(types), ft \in CountFailures(types) :
       /\ Reached(fs) /\ Reached(ft)
       /\ fs.discovery => ft = NoFail
       /\ FaultCount(fs) + FaultCount(ft) <= faults
       /\ faults' = faults - (FaultCount(fs) + FaultCount(ft))
       /\ LET s == CountsOf(kind, "source", fs)
              t == CountsOf(kind, "target", ft)
          IN /\ queries' = queries \cup CountQueries("source", kind, s.asked)
                    \cup Raised(CountQueries("source", kind, s.failed))
                    \cup (IF s.raised THEN {}
                          ELSE CountQueries("target", kind, t.asked)
                               \cup Raised(CountQueries("target", kind, t.failed)))
             /\ IF s.raised \/ t.raised THEN RunFails
                ELSE /\ pc' = next_pc
                     /\ progress_bar' = [progress_bar EXCEPT !.n = @ + 1]
                     /\ IF kind = "node"
                        THEN /\ ret' = [ret EXCEPT !.node_comparison =
                                          compare_counts(s.counts, t.counts)]
                             /\ todo' = todo
                        ELSE /\ ret' = [ret EXCEPT !.relationship_comparison =
                                          compare_counts(s.counts, t.counts)]
                             /\ todo' = DOMAIN ret.node_comparison.source_counts
                                          \cup DOMAIN ret.node_comparison.target_counts

\* Step 1: compare node counts
CompareNodeCounts ==
    /\ pc = "CountNodes"
    /\ CountBothSides("node", PoolLabels, "CountRelationships")
    /\ UNCHANGED <<args, nodes, rels, cur, exit_code>>

\* Step 2: compare relationship counts
CompareRelationshipCounts ==
    /\ pc = "CountRelationships"
    /\ CountBothSides("relationship", GraphRelTypes, "CompareTypes")
    /\ UNCHANGED <<args, nodes, rels, cur, exit_code>>

\* the sets of queries that may raise within the run's budget
Failing(props) ==
    {F \in SUBSET Range(props) : Cardinality(F) <= faults}

\* A slip that forgets the slice.
FirstOf_All(ids, k) == {ids}

\* list(ids)[:k]: the order of a set is arbitrary, so any k of them
FirstOf(ids, k) == Taking(ids, k)

effective_batch_size(label, batch_size) ==
    IF label \in {"Repository", "Author"} THEN Min(batch_size, SlowBatch)
    ELSE batch_size

\* lines 393-403
NewComparison(label, compare_ids, target_only_ids, full_diff) ==
    [label |-> label,
     total_compared |-> Cardinality(compare_ids),
     full_diff |-> full_diff,
     identical_nodes |-> 0,
     different_nodes |-> 0,
     missing_in_target |-> 0,
     missing_in_source |-> IF full_diff THEN Cardinality(target_only_ids) ELSE 0,
     differences |-> {}]

\* for label in all_labels: all_labels is a set, its order is arbitrary but
\* the passes of the loop do not depend on one another (each writes its own
\* entry of sample_comparisons), so the labels are visited in one order
NextLabel(labels) == CHOOSE l \in labels : TRUE

\* A slip that compares the content of every label of the count table.
HasSourceData_Always(label) == TRUE

\* line 653: if source_counts.get(label, 0) > 0
HasSourceData(label) ==
    CountOf(ret.node_comparison.source_counts, label) > 0

\* the loop of full_comparison reaches a label without source nodes
SkipType ==
    /\ pc = "CompareTypes" /\ cur = NoCur /\ todo # {}
    /\ \E label \in {NextLabel(todo)} :
          /\ ~HasSourceData(label)
          /\ todo' = todo \ {label}
    /\ progress_bar' = [progress_bar EXCEPT !.n = @ + 1]
    /\ UNCHANGED <<pc, args, ret, nodes, rels, queries, cur, faults, exit_code>>

\* line 417: show_detailed = len(compare_ids) > 50
DetailedThreshold == 50
show_detailed(compare_ids) == Cardinality(compare_ids) > DetailedThreshold

\* lines 63 and 495: the fallback tqdm of lines 18-68 defines
\* set_postfix(self, **kwargs), which the positional dict of line 495 does
\* not fit: the call raises TypeError; the tqdm package takes the dict
set_postfix_raises(has_tqdm) == ~has_tqdm

\* sample_node_comparison is entered with the keys to compare, unless the
\* key listing raised: the exception then reaches the handler of
\* full_comparison (lines 725-727)
KeysListed(raised, entered) ==
    IF raised
    THEN /\ pc' = "Failed"
         /\ progress_bar' = [progress_bar EXCEPT !.closed = @ + 1]
         /\ cur' = NoCur
    ELSE /\ pc' = pc
         /\ progress_bar' = [progress_bar EXCEPT !.detailed_opened =
                                @ + (IF show_detailed(entered.compare_ids) THEN 1 ELSE 0)]
         /\ cur' = [label |-> entered.label,
                    compare_ids |-> entered.compare_ids,
                    target_only_ids |-> entered.target_only_ids,
                    detailed_progress |-> show_detailed(entered.compare_ids),
                    comparison |-> entered.comparison]

\* sample_node_comparison, lines 366-403: the keys to compare
BeginType ==
    /\ pc = "CompareTypes" /\ cur = NoCur /\ todo # {}
    /\ \E label \in {NextLabel(todo)} :
          /\ HasSourceData(label)
          /\ todo' = todo \ {label}
          /\ \E fs \in Failing(ids_id_properties(label)) :
               IF args.full_diff
               THEN \E ft \in Failing(ids_id_properties(label)) :
                    /\ Cardinality(fs) + Cardinality(ft) <= faults
                    /\ faults' = faults - (Cardinality(fs) + Cardinality(ft))
                    /\ \E s \in get_node_ids_by_label(nodes["source"], label, FullDiffPage, fs),
                          t \in get_node_ids_by_label(nodes["target"], label, FullDiffPage, ft) :
                         /\ KeysListed(s.raised \/ t.raised,
                                [label |-> label,
                                 compare_ids |-> s.ids,
                                 target_only_ids |-> t.ids \ s.ids,
                                 comparison |-> NewComparison(label, s.ids, t.ids \ s.ids, TRUE)])
                         /\ queries' = queries \cup PropQueries("source", "ids", label, s.tried)
                               \cup Raised(PropQueries("source", "ids", label, s.tried \cap fs))
                               \cup (IF s.raised THEN {}
                                     ELSE PropQueries("target", "ids", label, t.tried)
                                          \cup Raised(PropQueries("target", "ids", label,
                                                                  t.tried \cap ft)))
               ELSE /\ faults' = faults - Cardinality(fs)
                    /\ \E s \in get_node_ids_by_label(nodes["source"], label,
                                      Max(args.sample_size * 2, SamplePageFloor), fs) :
                       \E compare_ids \in FirstOf(s.ids, args.sample_size) :
                         /\ KeysListed(s.raised,
                                [label |-> label,
                                 compare_ids |-> compare_ids,
                                 target_only_ids |-> {},
                                 comparison |-> NewComparison(label, compare_ids, {}, FALSE)])
                         /\ queries' = queries \cup PropQueries("source", "ids", label, s.tried)
                               \cup Raised(PropQueries("source", "ids", label, s.tried \cap fs))
    /\ UNCHANGED <<args, ret, nodes, rels, exit_code>>

\* A slip that counts a key missing in target as different too.
Compared_MissingAlsoDifferent(comparison, batch_ids, source_batch_data, target_batch_data) ==
    LET missing == {k \in batch_ids : Falsy(target_batch_data[k])}
        same == {k \in batch_ids \ missing :
                   nodes_are_equivalent(source_batch_data[k], target_batch_data[k])}
        differ == batch_ids \ same
    IN [comparison EXCEPT
          !.missing_in_target = @ + Cardinality(missing),
          !.identical_nodes = @ + Cardinality(same),
          !.different_nodes = @ + Cardinality(differ),
          !.differences = @ \cup
              {[id |-> k, status |-> "missing_in_target",
                source_data |-> source_batch_data[k], target_data |-> None] : k \in missing}]

\* lines 446-470: the verdicts on the keys of one batch
Compared(comparison, batch_ids, source_batch_data, target_batch_data) ==
    LET missing == {k \in batch_ids : Falsy(target_batch_data[k])}
        same == {k \in batch_ids \ missing :
                   nodes_are_equivalent(source_batch_data[k], target_batch_data[k])}
        differ == (batch_ids \ missing) \ same
    IN [comparison EXCEPT
          !.missing_in_target = @ + Cardinality(missing),
          !.identical_nodes = @ + Cardinality(same),
          !.different_nodes = @ + Cardinality(differ),
          !.differences = @ \cup
              {[id |-> k, status |-> "missing_in_target",
                source_data |-> source_batch_data[k], target_data |-> None] : k \in missing}
              \cup
              {[id |-> k, status |-> "different",
                source_data |-> source_batch_data[k],
                target_data |-> target_batch_data[k]] : k \in differ}]

\* one pass of the loop of lines 432-518: a batch of keys is fetched on both
\* sides and compared; with a detailed bar the pass ends in set_postfix,
\* whose exception leaves sample_node_comparison (no handler there, so the
\* detailed bar stays open) and reaches the handler of full_comparison
ProcessBatch ==
    /\ pc = "CompareTypes" /\ cur # NoCur /\ cur.compare_ids # {}
    /\ \E batch_ids \in FirstOf(cur.compare_ids,
                                 effective_batch_size(cur.label, args.batch_size)),
          fs \in Failing(batch_id_properties(cur.label)),
          ft \in Failing(batch_id_properties(cur.label)) :
          /\ Cardinality(fs) + Cardinality(ft) <= faults
          /\ faults' = faults - (Cardinality(fs) + Cardinality(ft))
          /\ \E s \in get_batch_node_data(nodes["source"], cur.label, batch_ids, fs),
                t \in get_batch_node_data(nodes["target"], cur.label, batch_ids, ft) :
               /\ IF cur.detailed_progress /\ set_postfix_raises(args.has_tqdm)
                  THEN /\ pc' = "Failed"
                       /\ progress_bar' = [progress_bar EXCEPT !.closed = @ + 1]
                       /\ cur' = cur
                  ELSE /\ pc' = pc
                       /\ progress_bar' = progress_bar
                       /\ cur' = [cur EXCEPT
                                    !.compare_ids = @ \ batch_ids,
                                    !.comparison = Compared(@, batch_ids, s.data, t.data)]
               /\ queries' = queries \cup BatchQueries("source", cur.label, s.tried)
                                     \cup BatchQueries("target", cur.label, t.tried)
                        \cup Raised(BatchQueries("source", cur.label, s.tried \cap fs))
                        \cup Raised(BatchQueries("target", cur.label, t.tried \cap ft))
    /\ UNCHANGED <<args, ret, nodes, rels, todo, exit_code>>

\* lines 527-534: the first ReportLimit target-only keys, each with the
\* node the single fetch finds for it
RECURSIVE EntriesFor(_, _, _)
EntriesFor(label, shown, failing) ==
    IF shown = {} THEN {{}}
    ELSE LET k == CHOOSE x \in shown : TRUE
             found == {o.data : o \in get_detailed_node_data(nodes["target"], label, k, failing)}
         IN {E \cup {[id |-> k, status |-> "missing_in_source",
                      source_data |-> None, target_data |-> f]} :
                E \in EntriesFor(label, shown \ {k}, failing), f \in found}

TargetOnlyEntries(label, target_only_ids, failing) ==
    UNION {EntriesFor(label, shown, failing) :
             shown \in FirstOf(target_only_ids, ReportLimit)}

\* lines 520-536 and 659-669: the comparison of the label is returned and
\* stored in comparison_result
EndType ==
    /\ pc = "CompareTypes" /\ cur # NoCur /\ cur.compare_ids = {}
    /\ \E failing \in Failing(detail_id_properties) :
          /\ faults' = faults - Cardinality(failing)
          /\ cur.target_only_ids = {} => failing = {}
          /\ \E E \in TargetOnlyEntries(cur.label, cur.target_only_ids, failing) :
               /\ ret' = [ret EXCEPT !.sample_comparisons =
                            [l \in DOMAIN @ \cup {cur.label} |->
                               IF l = cur.label
                               THEN [cur.comparison EXCEPT !.differences = @ \cup E]
                               ELSE @[l]]]
               /\ LET fetched == UNION {get_detailed_node_data(nodes["target"], cur.label,
                                                                e.id, failing) : e \in E}
                  IN queries' = queries \cup
                       UNION {PropQueries("target", "detail", cur.label, o.tried)
                              \cup Raised(PropQueries("target", "detail", cur.label,
                                                      o.tried \cap failing)) :
                                o \in fetched}
    /\ cur' = NoCur
    /\ progress_bar' = [progress_bar EXCEPT
                          !.n = @ + 1,
                          !.detailed_closed = @ + (IF cur.detailed_progress THEN 1 ELSE 0)]
    /\ UNCHANGED <<pc, args, nodes, rels, todo, exit_code>>

\* A slip that looks at the counters only, not at the differences list.
sample_differences_found_CountsOnly(sample_comps) ==
    \E l \in DOMAIN sample_comps :
        \/ sample_comps[l].different_nodes > 0
        \/ sample_comps[l].missing_in_target > 0

\* lines 686-693
sample_differences_found(sample_comps) ==
    \E l \in DOMAIN sample_comps :
        \/ sample_comps[l].different_nodes > 0
        \/ sample_comps[l].missing_in_target > 0
        \/ Cardinality(sample_comps[l].differences) > 0

\* lines 681-714
Summary(node_comp, rel_comp, sample_comps) ==
    LET total_source_nodes == SumCounts(node_comp.source_counts)
        total_target_nodes == SumCounts(node_comp.target_counts)
        total_source_rels == SumCounts(rel_comp.source_counts)
        total_target_rels == SumCounts(rel_comp.target_counts)
    IN [total_nodes |-> [source |-> total_source_nodes,
                         target |-> total_target_nodes,
                         match |-> total_source_nodes = total_target_nodes],
        total_relationships |-> [source |-> total_source_rels,
                                 target |-> total_target_rels,
                                 match |-> total_source_rels = total_target_rels],
        node_types_match |-> DOMAIN node_comp.differences = {},
        relationship_types_match |-> DOMAIN rel_comp.differences = {},
        sample_differences_found |-> sample_differences_found(sample_comps),
        identical |-> /\ total_source_nodes = total_target_nodes
                      /\ total_source_rels = total_target_rels
                      /\ DOMAIN node_comp.differences = {}
                      /\ DOMAIN rel_comp.differences = {}
                      /\ ~sample_differences_found(sample_comps)]

\* Step 3: generate summary, close the bar and return comparison_result
Summarize ==
    /\ pc = "CompareTypes" /\ cur = NoCur /\ todo = {}
    /\ ret' = [ret EXCEPT !.summary =
                 Summary(ret.node_comparison, ret.relationship_comparison,
                         ret.sample_comparisons)]
    /\ progress_bar' = [progress_bar EXCEPT !.closed = @ + 1]
    /\ pc' = "Done"
    /\ UNCHANGED <<args, nodes, rels, queries, todo, cur, faults, exit_code>>

Next ==
    \/ StartComparison
    \/ CompareNodeCounts
    \/ CompareRelationshipCounts
    \/ SkipType
    \/ BeginType
    \/ ProcessBatch
    \/ EndType
    \/ Summarize

\* every query succeeds
Spec == Init /\ [][Next]_vars

\* queries may raise
SpecFaults == InitFaults /\ [][Next]_vars

\* Full-diff runs over a target with many keys the source lacks: the source
\* holds one Dataset, the target the Datasets of keys "1" .. n.
MaxTargetOnly == 101
ManyKeys(n) == {Node("Dataset", [id |-> StrVal(ToString(i))]) : i \in 1..n}

InitMany ==
    /\ pc = "Init"
    /\ args \in [pwc_only : BOOLEAN, full_diff : BOOLEAN,
                  sample_size : {SampleSize}, batch_size : {BatchSize},
                  has_tqdm : {TRUE}]
    /\ ret = NoResult
    /\ \E n \in 0..(MaxTargetOnly + 1) :
          nodes = [side \in Sides |-> IF side = "source" THEN ManyKeys(1) ELSE ManyKeys(n)]
    /\ rels = [side \in Sides |-> NoRels]
    /\ queries = {}
    /\ NoRun

SpecMany == InitMany /\ [][Next]_vars

\* Runs over a source with many keys, with --sample 100 and the default of
\* --batch-size, with the tqdm package installed or not: the source holds
\* the Datasets of keys "1" .. n, the target the same nodes or none.
MaxSourceKeys == 101
LargeSample == 100
DefaultBatch == 100

InitLarge ==
    /\ pc = "Init"
    /\ args \in [pwc_only : BOOLEAN, full_diff : BOOLEAN,
                  sample_size : {LargeSample}, batch_size : {DefaultBatch},
                  has_tqdm : BOOLEAN]
    /\ ret = NoResult
    /\ \E n \in 0..MaxSourceKeys :
          nodes \in {[side \in Sides |-> IF side = "source" THEN ManyKeys(n) ELSE T] :
                       T \in {ManyKeys(0), ManyKeys(n)}}
    /\ rels = [side \in Sides |-> NoRels]
    /\ queries = {}
    /\ NoRun

SpecLarge == InitLarge /\ [][Next]_vars

\* Runs over endpoints holding two labels, in which queries may raise
TypesPool ==
    { Node("Dataset", [id |-> StrVal("1"), name |-> StrVal("a")]),
      Node("Paper",   [arxiv_id |-> StrVal("1"), id |-> StrVal("2")]) }

InitTypes ==
    /\ pc = "Init"
    /\ args \in [pwc_only : BOOLEAN, full_diff : BOOLEAN,
                  sample_size : {SampleSize}, batch_size : {BatchSize},
                  has_tqdm : {TRUE}]
    /\ ret = NoResult
    /\ nodes \in [Sides -> SUBSET TypesPool]
    /\ rels = [side \in Sides |-> NoRels]
    /\ queries = {}
    /\ todo = {}
    /\ cur = NoCur
    /\ faults = MaxFaults
    /\ progress_bar = NoBar
    /\ exit_code = NotExited

SpecTypes == InitTypes /\ [][Next]_vars

\* Runs that the user may cancel. full_comparison takes sample_size,
\* batch_size and full_diff only (line 596) and looks at no clock and no
\* flag: the one way to stop a run is the interpreter's KeyboardInterrupt,
\* which may be raised at any point of the run.
InterruptedIn ==
    [CountNodes |-> "InterruptedInCountNodes",
     CountRelationships |-> "InterruptedInCountRelationships",
     CompareTypes |-> "InterruptedInCompareTypes"]

\* KeyboardInterrupt is no Exception: raised in a count query, in a batch
\* fetch or between two queries it passes the handlers of lines 164-233 and
\* 569 and the one of lines 725-727, so no bar is closed and full_comparison
\* is left by the exception. (The bare except clauses of lines 269, 285 and
\* 611 take it for a failed query of the key listing, the single fetch or
\* the preview: there it does not stop the run.)
Interrupt ==
    /\ pc \in DOMAIN InterruptedIn
    /\ pc' = InterruptedIn[pc]
    /\ UNCHANGED <<args, ret, nodes, rels, queries, todo, cur, faults,
                   progress_bar, exit_code>>

NextAbort ==
    \/ Next
    \/ Interrupt

SpecAbort == InitTypes /\ [][NextAbort]_vars

\* what the caller of full_comparison holds: comparison_result is a local of
\* full_comparison, handed over by the return of line 723 and by nothing
\* else
Delivered == IF pc = "Done" THEN Some(ret) ELSE None

----------------------------------------------------------------------------
(* The diff CLI: main of neo4j_diff.py *)

\* the endpoints of the CLI runs: at most MaxFaultNodes nodes of these
CliPool ==
    { Node("Dataset", [id |-> StrVal("1"), name |-> StrVal("a")]),
      Node("Dataset", [id |-> StrVal("1"), name |-> StrVal("b")]),
      Node("Dataset", [id |-> IntVal("1")]) }
CliStores == {S \in Stores : S \subseteq CliPool /\ Cardinality(S) <= MaxFaultNodes}

\* The command line and what the process finds around it: the flags, whether
\* --target-uri is given, whether the config file yields the local and
\* the remote environment, which endpoint refuses the connection and
\* whether the --output file can be written.
CliArgs ==
    {a \in [pwc_only : BOOLEAN, full_diff : BOOLEAN,
             sample_size : {SampleSize}, batch_size : {BatchSize},
             has_tqdm : {TRUE},
             local : BOOLEAN, remote : BOOLEAN,
             target_uri : {"", "bolt://target"},
             local_config : BOOLEAN, remote_config : BOOLEAN,
             refused : {"none"} \cup Sides,
             output : {"none", "written", "unwritable"}] :
        /\ ~a.local => a.local_config
        /\ ~a.remote => a.remote_config}

InitCli ==
    /\ pc = "main"
    /\ args \in CliArgs
    /\ ret = NoResult
    /\ nodes \in [Sides -> CliStores]
    /\ rels = [side \in Sides |-> NoRels]
    /\ queries = {}
    /\ todo = {}
    /\ cur = NoCur
    /\ faults = MaxFaults
    /\ progress_bar = NoBar
    /\ exit_code = NotExited

\* main returns without calling exit: the interpreter ends with status 0
Returns ==
    /\ pc' = "Exited"
    /\ exit_code' = 0

\* lines 905-933: the configuration is loaded when --local or --remote asks
\* for it, and its URIs replace those of the command line
LoadConfiguration ==
    /\ pc = "main"
    /\ IF (args.local /\ ~args.local_config) \/ (args.remote /\ ~args.remote_config)
       THEN Returns /\ args' = args
       ELSE /\ pc' = "validate"
            /\ args' = [args EXCEPT !.target_uri =
                                      IF args.remote THEN "bolt://remote" ELSE @]
            /\ exit_code' = exit_code
    /\ UNCHANGED <<ret, nodes, rels, queries, todo, cur, faults, progress_bar>>

\* lines 935-939: if not args.target_uri
ValidateTarget ==
    /\ pc = "validate"
    /\ IF args.target_uri = ""
       THEN Returns
       ELSE pc' = "connect" /\ exit_code' = exit_code
    /\ UNCHANGED <<args, ret, nodes, rels, queries, todo, cur, faults, progress_bar>>

\* the driver and the session of an endpoint, and the calls that open and
\* close them, as entries of the call log
Handles == {"driver", "session"}
HandleCalls(side, what, hs) ==
    {[side |-> side, kind |-> what, label |-> h, prop |-> "connection"] : h \in hs}

\* lines 94-110: what __init__ has opened when the connection to an endpoint
\* is refused in GraphDatabase.driver(...) or in driver.session(); the
\* source is connected first
OpenedBefore(refused, at) ==
    [side \in Sides |->
        IF side = refused THEN (IF at = "session" THEN {"driver"} ELSE {})
        ELSE IF refused = "source" THEN {}
        ELSE Handles]

\* lines 941-951 and 980-982: Neo4jDiff(...) raises when an endpoint refuses
\* the connection, and the handler of main exits with 1
Connect ==
    /\ pc = "connect"
    /\ IF args.refused # "none"
       THEN /\ pc' = "Exited" /\ exit_code' = 1
            /\ \E at \in Handles :
                  queries' = queries \cup
                     UNION {HandleCalls(side, "opened", OpenedBefore(args.refused, at)[side]) :
                              side \in Sides}
       ELSE /\ pc' = "Init" /\ exit_code' = exit_code
            /\ queries' = queries \cup
                  UNION {HandleCalls(side, "opened", Handles) : side \in Sides}
    /\ UNCHANGED <<args, ret, nodes, rels, todo, cur, faults, progress_bar>>

\* lines 112-120: close() closes the session and the driver of both sides
close == UNION {HandleCalls(side, "closed", Handles) : side \in Sides}

\* lines 960-978: the report is printed, the result saved when --output asks
\* for it, the connections are closed and the process exits by
\* summary.identical; a failing write reaches the handler of lines 980-982
\* before diff_tool.close() is called
ReportAndExit ==
    /\ pc = "Done"
    /\ pc' = "Exited"
    /\ exit_code' = IF args.output = "unwritable" THEN 1
                    ELSE IF ret.summary.identical THEN 0 ELSE 1
    /\ queries' = IF args.output = "unwritable" THEN queries ELSE queries \cup close
    /\ UNCHANGED <<args, ret, nodes, rels, todo, cur, faults, progress_bar>>

\* lines 980-982: full_comparison raised
ComparisonFailed ==
    /\ pc = "Failed"
    /\ pc' = "Exited"
    /\ exit_code' = 1
    /\ UNCHANGED <<args, ret, nodes, rels, queries, todo, cur, faults, progress_bar>>

NextCli ==
    \/ LoadConfiguration
    \/ ValidateTarget
    \/ Connect
    \/ StartComparison
    \/ CompareNodeCounts
    \/ CompareRelationshipCounts
    \/ SkipType
    \/ BeginType
    \/ ProcessBatch
    \/ EndType
    \/ Summarize
    \/ ReportAndExit
    \/ ComparisonFailed

SpecCli == InitCli /\ [][NextCli]_vars

----------------------------------------------------------------------------
(* Selective clearing: PapersWithCodeGraph.clear_pwc_data_only of models.py *)

\* In these runs nodes is the set of the nodes of the one database, each
\* [id, labels], and rels the set of its relationships, each
\* [type, from, to]; args keeps the graph as it was before the call.
pwc_node_types == <<"Paper", "Repository", "Dataset", "Task", "Author">>
pwc_relationship_types == <<"AUTHORED", "HAS_CODE", "USES_DATASET", "ADDRESSES_TASK">>

MaxClearNodes == 3
MaxClearRels == 2
ClearLabelSets == {{"Paper"}, {"Author"}, {"Widget"}, {"Dataset", "Widget"}}
ClearRelTypes == {"AUTHORED", "LINKS"}

ClearGraphs ==
    UNION {
      {[nodes |-> {[id |-> i, labels |-> lab[i]] : i \in 1..n}, rels |-> R] :
          lab \in [1..n -> ClearLabelSets],
          R \in {E \in SUBSET {r \in [type : ClearRelTypes, from : 1..n, to : 1..n] :
                                  r.from # r.to} :
                   Cardinality(E) <= MaxClearRels}} :
      n \in 0..MaxClearNodes}

\* node_type.lower()
Lower ==
    [Paper |-> "paper", Repository |-> "repository", Dataset |-> "dataset",
     Task |-> "task", Author |-> "author"]

Labelled(graph_nodes, t) == {n \in graph_nodes : t \in n.labels}

InitClear ==
    /\ pc = "clear_call"
    /\ \E g \in ClearGraphs :
          /\ nodes = g.nodes
          /\ rels = g.rels
          /\ args = g
    /\ ret = EmptyMap
    /\ queries = {}
    /\ todo = << >>
    /\ cur = NoCur
    /\ faults = MaxFaults
    /\ progress_bar = NoBar
    /\ exit_code = NotExited

\* lines 847-858: count the existing data, a count that raises is taken as 0;
\* nothing is deleted unless the counts add up to more than 0
ClearCountExisting ==
    /\ pc = "clear_call"
    /\ \E failing \in {F \in SUBSET Range(pwc_node_types) : Cardinality(F) <= faults} :
          LET count(t) == IF t \in failing THEN 0 ELSE Cardinality(Labelled(nodes, t))
              existing_data == [k \in {Lower[t] : t \in Range(pwc_node_types)} |->
                                  count(CHOOSE t \in Range(pwc_node_types) : Lower[t] = k)]
          IN /\ ret' = existing_data
             /\ faults' = faults - Cardinality(failing)
             /\ IF SumCounts(existing_data) > 0
                THEN pc' = "clear_rels" /\ todo' = pwc_relationship_types
                ELSE pc' = "clear_done" /\ todo' = << >>
    /\ UNCHANGED <<args, nodes, rels, queries, cur, progress_bar, exit_code>>

\* lines 865-871: MATCH ()-[r:rel_type]-() DELETE r, a failure is logged
ClearRelationshipType ==
    /\ pc = "clear_rels"
    /\ LET rel_type == Head(todo)
       IN \/ /\ rels' = {r \in rels : r.type # rel_type}
             /\ faults' = faults
          \/ /\ faults > 0
             /\ faults' = faults - 1
             /\ rels' = rels
    /\ IF Tail(todo) = << >>
       THEN pc' = "clear_nodes" /\ todo' = pwc_node_types
       ELSE pc' = pc /\ todo' = Tail(todo)
    /\ UNCHANGED <<args, ret, nodes, queries, cur, progress_bar, exit_code>>

\* lines 873-883: MATCH (n:node_type)-[r]-() DELETE r, then
\* MATCH (n:node_type) DELETE n, both in one try
ClearNodeType ==
    /\ pc = "clear_nodes"
    /\ LET node_type == Head(todo)
           gone == {n.id : n \in Labelled(nodes, node_type)}
           detached == {r \in rels : r.from \notin gone /\ r.to \notin gone}
       IN \/ /\ rels' = detached
             /\ nodes' = nodes \ Labelled(nodes, node_type)
             /\ faults' = faults
          \/ /\ faults > 0
             /\ faults' = faults - 1
             /\ \/ rels' = rels /\ nodes' = nodes
                \/ rels' = detached /\ nodes' = nodes
    /\ IF Tail(todo) = << >>
       THEN pc' = "clear_done" /\ todo' = << >>
       ELSE pc' = pc /\ todo' = Tail(todo)
    /\ UNCHANGED <<args, ret, queries, cur, progress_bar, exit_code>>

NextClear ==
    \/ ClearCountExisting
    \/ ClearRelationshipType
    \/ ClearNodeType

SpecClear == InitClear /\ [][NextClear]_vars

----------------------------------------------------------------------------
(* The offline loader: main of pwc_offline_loader.py, the confirmation of  *)
(* the destructive operations and the two loading operations               *)

\* In these runs nodes maps each database to [labels, indexes], the labels
\* that have nodes in it and the names of its indexes, rels maps it to the
\* relationship types present, queries is the set of the calls made on a
\* graph, each [db, call], args is the parsed command line together with the
\* line typed on standard input, cur is the frame of load_and_save_to_neo4j
\* and ret the result of the loading operation.
LoaderDbs == {"local", "target"}

pwc_indexes ==
    {"paper_id_index", "paper_arxiv_index", "repo_url_index",
     "author_name_index", "dataset_id_index", "task_id_index"}

\* A typed line is a sequence of words and blanks
confirmation_text == <<"DELETE", " ", "ALL", " ", "DATA">>
Whitespace == {" "}

RECURSIVE lstrip(_)
lstrip(s) == IF s # << >> /\ Head(s) \in Whitespace THEN lstrip(Tail(s)) ELSE s

RECURSIVE rstrip(_)
rstrip(s) ==
    IF s # << >> /\ s[Len(s)] \in Whitespace
    THEN rstrip(SubSeq(s, 1, Len(s) - 1))
    ELSE s

\* str.strip()
strip(s) == rstrip(lstrip(s))

\* user_input = input("Confirmation: ").strip(), compared with the text
confirm_dangerous_operation(typed) == strip(typed) = confirmation_text

TypedLines ==
    {confirmation_text,
     <<" ">> \o confirmation_text,
     confirmation_text \o <<" ">>,
     <<"delete", " ", "all", " ", "data">>,
     <<"WRONG", " ", "CONFIRMATION">>,
     <<"n">>,
     << >>}

LoaderDbStates ==
    [labels : {{}, {"Paper", "Dataset", "User"}}, indexes : {{}, pwc_indexes}]

LoaderArgs ==
    [drop_all : BOOLEAN, clear_all : BOOLEAN,
     drop_all_target : BOOLEAN, clear_target : BOOLEAN,
     force_reload : BOOLEAN, skip_if_exists : BOOLEAN, skip_datasets : BOOLEAN,
     new_neo4j_uri : {"", "bolt://target"},
     data_dir : {"given", "absent", "none"},
     typed : TypedLines]

NoFrame == [graph |-> "none"]

InitLoader ==
    /\ pc = "loader_main"
    /\ args \in LoaderArgs
    /\ nodes \in [LoaderDbs -> LoaderDbStates]
    /\ rels = [d \in LoaderDbs |-> IF "User" \in nodes[d].labels THEN {"OWNS"} ELSE {}]
    /\ ret = "none"
    /\ queries = {}
    /\ todo = << >>
    /\ cur = NoFrame
    /\ faults = MaxFaults
    /\ progress_bar = NoBar
    /\ exit_code = NotExited

\* main returns, or its except clause logs "Pipeline failed" and the finally
\* clause closes the graph: the interpreter ends with status 0
LoaderReturns ==
    /\ pc' = "Exited"
    /\ exit_code' = 0

FlagConflict(a) ==
    \/ a.drop_all /\ a.clear_all
    \/ a.drop_all_target /\ a.clear_target
    \/ a.drop_all_target /\ a.new_neo4j_uri = ""

\* main, lines 980-998: each conflict is logged and main returns
ValidateFlags ==
    /\ pc = "loader_main"
    /\ IF FlagConflict(args)
       THEN LoaderReturns
       ELSE pc' = "data_dir" /\ UNCHANGED exit_code
    /\ UNCHANGED <<args, ret, nodes, rels, queries, todo, cur, faults, progress_bar>>

\* main, lines 1000-1027: no data directory named and none found makes main
\* return; a directory that does not exist makes the loader's constructor
\* raise ValueError, which the except clause of main logs
DetermineDataDir ==
    /\ pc = "data_dir"
    /\ IF args.data_dir = "given"
       THEN /\ pc' = IF args.new_neo4j_uri # "" THEN "new_instance" ELSE "connect_local"
            /\ UNCHANGED exit_code
       ELSE LoaderReturns
    /\ UNCHANGED <<args, ret, nodes, rels, queries, todo, cur, faults, progress_bar>>

\* PapersWithCodeGraph.__init__ and create_indexes: CREATE INDEX ... IF NOT
\* EXISTS for the six indexes, a failure is logged as a warning
Constructed(db, ok) ==
    [nodes EXCEPT ![db].indexes = IF ok THEN @ \cup pwc_indexes ELSE @]

\* the frame of a call of load_and_save_to_neo4j
Frame(db, caller, force_reload, clear_all, drop_all, skip_datasets, skip_if_exists) ==
    [graph |-> db, caller |-> caller, force_reload |-> force_reload,
     clear_all |-> clear_all, drop_all |-> drop_all,
     skip_datasets |-> skip_datasets, skip_if_exists |-> skip_if_exists]

\* main, lines 1046-1078: the local graph is constructed, which creates the
\* indexes, and load_and_save_to_neo4j is called with the flags
ConnectLocal ==
    /\ pc = "connect_local"
    /\ \E ok \in {TRUE} \cup {FALSE : x \in 1..faults} :
          /\ nodes' = Constructed("local", ok)
          /\ faults' = IF ok THEN faults ELSE faults - 1
    /\ queries' = queries \cup {[db |-> "local", call |-> "create_indexes"]}
    /\ cur' = Frame("local", "main", args.force_reload, args.clear_all,
                    args.drop_all, args.skip_datasets, args.skip_if_exists)
    /\ pc' = "load_and_save"
    /\ UNCHANGED <<args, ret, rels, todo, progress_bar, exit_code>>

\* clear_all_data of models.py: MATCH ()-[r]->() DELETE r, then
\* MATCH (n) DELETE n; an exception ends it and is logged.  how tells what
\* ran before a query raised: "all", "relationships" or "nothing"
clear_all_data(db, how) ==
    /\ rels' = IF how = "nothing" THEN rels ELSE [rels EXCEPT ![db] = {}]
    /\ nodes' = IF how = "all" THEN [nodes EXCEPT ![db].labels = {}] ELSE nodes
    /\ faults' = IF how = "all" THEN faults ELSE faults - 1

ClearOutcomes == {"all"} \cup (IF faults > 0 THEN {"relationships", "nothing"} ELSE {})

Called(db, calls) == queries \cup {[db |-> db, call |-> c] : c \in calls}

\* clear_pwc_data_only followed by clear_pwc_indexes_only, on the labels,
\* relationship types and indexes of one database
ClearedPwc(db) ==
    [nodes EXCEPT ![db] = [labels |-> @.labels \ Range(pwc_node_types),
                           indexes |-> @.indexes \ pwc_indexes]]

ClearedPwcRels(db) ==
    [rels EXCEPT ![db] =
        IF nodes[db].labels \cap Range(pwc_node_types) # {}
        THEN @ \ Range(pwc_relationship_types)
        ELSE @]

\* load_to_new_neo4j_instance, lines 505-511: the graph of the new instance
\* is constructed, which creates the indexes there, and its statistics read
ConnectTarget ==
    /\ pc = "new_instance"
    /\ \E ok \in {TRUE} \cup {FALSE : x \in 1..faults} :
          /\ nodes' = Constructed("target", ok)
          /\ faults' = IF ok THEN faults ELSE faults - 1
    /\ queries' = Called("target", {"create_indexes"})
    /\ pc' = "prepare_target"
    /\ UNCHANGED <<args, ret, rels, todo, cur, progress_bar, exit_code>>

\* load_to_new_neo4j_instance, lines 513-540: drop_all_target asks for the
\* confirmation and clears everything or returns {}; clear_target clears the
\* PWC data; then load_and_save_to_neo4j is called on the new graph with
\* rebuild_models and force_reload
PrepareTarget ==
    /\ pc = "prepare_target"
    /\ IF args.drop_all_target
       THEN IF confirm_dangerous_operation(args.typed)
            THEN /\ \E how \in ClearOutcomes : clear_all_data("target", how)
                 /\ queries' = Called("target", {"clear_all_data"})
                 /\ pc' = "load_and_save"
                 /\ ret' = ret
            ELSE /\ ret' = "empty"
                 /\ pc' = "pipeline_done"
                 /\ UNCHANGED <<nodes, rels, queries, faults>>
       ELSE /\ IF args.clear_target
               THEN /\ nodes' = ClearedPwc("target")
                    /\ rels' = ClearedPwcRels("target")
                    /\ queries' = Called("target", {"clear_pwc_data_only",
                                                    "clear_pwc_indexes_only"})
               ELSE UNCHANGED <<nodes, rels, queries>>
            /\ pc' = "load_and_save"
            /\ UNCHANGED <<ret, faults>>
    /\ cur' = IF pc' = "load_and_save"
              THEN Frame("target", "load_to_new_neo4j_instance",
                         TRUE, FALSE, FALSE, FALSE, FALSE)
              ELSE cur
    /\ UNCHANGED <<args, todo, progress_bar, exit_code>>

\* load_and_save_to_neo4j, lines 568-586: drop_all asks for the confirmation
\* and clears everything or returns {}; clear_all clears the PWC data; both
\* turn force_reload on
DropOrClear ==
    /\ pc = "load_and_save"
    /\ IF cur.drop_all
       THEN IF confirm_dangerous_operation(args.typed)
            THEN /\ \E how \in ClearOutcomes : clear_all_data(cur.graph, how)
                 /\ queries' = Called(cur.graph, {"clear_all_data"})
                 /\ cur' = [cur EXCEPT !.force_reload = TRUE]
                 /\ pc' = "load_phases"
                 /\ ret' = ret
            ELSE /\ ret' = "empty"
                 /\ pc' = "pipeline_done"
                 /\ UNCHANGED <<nodes, rels, queries, faults, cur>>
       ELSE /\ IF cur.clear_all
               THEN /\ nodes' = ClearedPwc(cur.graph)
                    /\ rels' = ClearedPwcRels(cur.graph)
                    /\ queries' = Called(cur.graph, {"clear_pwc_data_only",
                                                     "clear_pwc_indexes_only"})
                    /\ cur' = [cur EXCEPT !.force_reload = TRUE]
               ELSE UNCHANGED <<nodes, rels, queries, cur>>
            /\ pc' = "load_phases"
            /\ UNCHANGED <<ret, faults>>
    /\ UNCHANGED <<args, todo, progress_bar, exit_code>>

\* load_and_save_to_neo4j, lines 588-826: the check of the existing data or
\* the clearing of a forced reload, then the dataset phase and the paper
\* phase, and the statistics as the result
LoadPhases ==
    /\ pc = "load_phases"
    /\ LET db == cur.graph
           fresh == ~cur.force_reload /\ ~cur.clear_all /\ ~cur.drop_all
           reload == ~fresh /\ cur.force_reload /\ ~cur.clear_all /\ ~cur.drop_all
           skip_datasets == cur.skip_datasets
                            \/ (fresh /\ "Dataset" \in nodes[db].labels)
           skipped == fresh /\ "Paper" \in nodes[db].labels /\ cur.skip_if_exists
           cleared == IF reload
                      THEN (IF skip_datasets THEN {} ELSE {"Dataset"}) \cup {"Paper"}
                      ELSE {}
           loaded == (IF skip_datasets THEN {} ELSE {"Dataset"}) \cup {"Paper", "Author"}
       IN IF skipped
          THEN UNCHANGED <<nodes, rels, queries>>
          ELSE /\ nodes' = [nodes EXCEPT ![db].labels = (@ \ cleared) \cup loaded]
               /\ rels' = [rels EXCEPT ![db] = @ \cup {"AUTHORED"}]
               /\ queries' = Called(db,
                     (IF reload /\ ~skip_datasets THEN {"clear_datasets_only"} ELSE {})
                     \cup (IF reload THEN {"clear_papers_only"} ELSE {})
                     \cup (IF skip_datasets THEN {} ELSE {"batch_save_datasets"})
                     \cup {"batch_save_papers"})
    /\ ret' = "stats"
    /\ pc' = "pipeline_done"
    /\ UNCHANGED <<args, todo, cur, faults, progress_bar, exit_code>>

\* main, lines 1080-1097: "Pipeline completed successfully!", the final
\* statistics (on the new-instance path the name graph is unbound, and the
\* except clause logs the NameError), and the graph is closed
PipelineDone ==
    /\ pc = "pipeline_done"
    /\ LoaderReturns
    /\ UNCHANGED <<args, ret, nodes, rels, queries, todo, cur, faults, progress_bar>>

NextLoader ==
    \/ ValidateFlags
    \/ DetermineDataDir
    \/ ConnectLocal
    \/ ConnectTarget
    \/ PrepareTarget
    \/ DropOrClear
    \/ LoadPhases
    \/ PipelineDone

SpecLoader == InitLoader /\ [][NextLoader]_vars

----------------------------------------------------------------------------
\* PapersWithCodeOfflineLoader: the caches of the loaded data files
\* (src/pwc_offline_loader.py). Here nodes holds the data files, cur the five
\* caches, args the last call and ret the list it returned.

\* the dataset each load function reads, and with it its cache
CacheKeys == {"papers", "links", "datasets", "methods", "evaluations"}
LoadFunctions ==
    [papers |-> "load_papers", links |-> "load_links",
     datasets |-> "load_datasets_json", methods |-> "load_methods",
     evaluations |-> "load_evaluations"]

MaxRecords == 2     \* records a data file holds at most
MaxLimit == 2       \* the largest limit passed

\* the records of a data file, in the order of the file
Records(key, n) == [i \in 1..n |-> [dataset |-> key, record |-> i]]

\* limit: Optional[int]
Limits == {None} \cup {Some(l) : l \in 0..MaxLimit}

\* actual_limit = None if limit == 0 else limit
actual_limit(limit) == IF limit = Some(0) THEN None ELSE limit

\* pwc_dataset_downloader.py, lines 199-250: None when the file cannot be
\* extracted, else data[:max_records] if max_records else data
load_json_file(file, max_records) ==
    IF file = None THEN None
    ELSE IF max_records # None /\ max_records[1] # 0
         THEN Some(SubSeq(file[1], 1, Min(max_records[1], Len(file[1]))))
         ELSE file

\* load_papers and its four siblings: the file is read when the cache is
\* None, a file that cannot be read is cached as the empty list, and the
\* cache is returned
load_cached(caches, files, key, limit) ==
    IF caches[key] = None
    THEN LET loaded == load_json_file(files[key], actual_limit(limit))
             records == IF loaded = None THEN << >> ELSE loaded[1]
         IN [caches |-> [caches EXCEPT ![key] = Some(records)], value |-> records]
    ELSE [caches |-> caches, value |-> caches[key][1]]

NoCaches == [k \in CacheKeys |-> None]

InitCache ==
    /\ pc = "loader_ready"
    /\ \E n \in 0..MaxRecords, present \in BOOLEAN :
          nodes = [k \in CacheKeys |-> IF present THEN Some(Records(k, n)) ELSE None]
    /\ cur = NoCaches
    /\ args = [op |-> "__init__", key |-> "none", limit |-> None]
    /\ ret = << >>
    /\ rels = << >>
    /\ queries = {}
    /\ todo = {}
    /\ faults = 0
    /\ progress_bar = NoBar
    /\ exit_code = NotExited

\* lines 97-155: load_papers(limit), load_links(limit),
\* load_datasets_json(limit), load_methods(limit), load_evaluations(limit)
LoadDataset ==
    /\ pc = "loader_ready"
    /\ \E key \in CacheKeys, limit \in Limits :
          LET o == load_cached(cur, nodes, key, limit)
          IN /\ cur' = o.caches
             /\ ret' = o.value
             /\ args' = [op |-> LoadFunctions[key], key |-> key, limit |-> limit]
    /\ UNCHANGED <<pc, nodes, rels, queries, todo, faults, progress_bar, exit_code>>

\* lines 88-95
clear_cache ==
    /\ pc = "loader_ready"
    /\ cur' = NoCaches
    /\ ret' = << >>
    /\ args' = [op |-> "clear_cache", key |-> "none", limit |-> None]
    /\ UNCHANGED <<pc, nodes, rels, queries, todo, faults, progress_bar, exit_code>>

\* lines 335-354 and 298: build_papers_with_code loads the papers under
\* paper_limit and, when there are any and the repositories are asked for,
\* every link (build_paper_repository_mapping calls load_links())
build_papers_with_code ==
    /\ pc = "loader_ready"
    /\ \E paper_limit \in Limits, include_repositories \in BOOLEAN :
          LET papers == load_cached(cur, nodes, "papers", actual_limit(paper_limit))
              links == load_cached(papers.caches, nodes, "links", None)
          IN /\ cur' = IF papers.value # << >> /\ include_repositories
                       THEN links.caches ELSE papers.caches
             /\ ret' = papers.value
             /\ args' = [op |-> "build_papers_with_code", key |-> "papers",
                         limit |-> paper_limit]
    /\ UNCHANGED <<pc, nodes, rels, queries, todo, faults, progress_bar, exit_code>>

NextCache ==
    \/ LoadDataset
    \/ clear_cache
    \/ build_papers_with_code

SpecCache == InitCache /\ [][NextCache]_vars

----------------------------------------------------------------------------
(* Claims on the equivalence checker *)

\* What the specification asks of equivalent(a, b)
EquivalentAsSpecified(a, b) ==
    IF IsNone(a) /\ IsNone(b) THEN TRUE
    ELSE IF IsNone(a) \/ IsNone(b) THEN FALSE
    ELSE /\ DOMAIN a[1] \ ignore_fields = DOMAIN b[1] \ ignore_fields
         /\ \A k \in DOMAIN a[1] \ ignore_fields : a[1][k] = b[1][k]

\* C3: nodes_are_equivalent(a, b) is true for two nulls, false for exactly
\* one null, and otherwise true exactly when the maps stripped of the
\* volatile fields have the same keys and values -- the empty map and maps of
\* volatile fields only included.
C3_Claim ==
    pc = "eq_done" => ret = EquivalentAsSpecified(args.source_data, args.target_data)

\* C4: two maps that agree on every non-volatile field are equivalent
\* whatever volatile fields either carries, and two maps that differ in the
\* presence or value of a non-volatile field are not.
AgreeOnNonVolatile(m1, m2) ==
    /\ DOMAIN m1 \ ignore_fields = DOMAIN m2 \ ignore_fields
    /\ \A k \in DOMAIN m1 \ ignore_fields : m1[k] = m2[k]

C4_Claim ==
    (pc = "eq_done" /\ ~IsNone(args.source_data) /\ ~IsNone(args.target_data)) =>
        (ret <=> AgreeOnNonVolatile(args.source_data[1], args.target_data[1]))

\* C5: nodes_are_equivalent is reflexive on property maps and symmetric on
\* every pair of inputs.
C5_ReflexiveSymmetric ==
    pc = "eq_done" =>
        /\ (args.source_data = args.target_data /\ ~IsNone(args.source_data)) => ret
        /\ ret = nodes_are_equivalent(args.target_data, args.source_data)

\* a pair of different maps, one of which is only volatile, has been compared
C5_Witness ==
    /\ pc = "eq_done"
    /\ ~IsNone(args.source_data) /\ ~IsNone(args.target_data)
    /\ args.source_data # args.target_data
    /\ DOMAIN args.source_data[1] # {}
    /\ DOMAIN args.source_data[1] \subseteq ignore_fields
    /\ ret

----------------------------------------------------------------------------
(* Claims on the batch fetcher *)

\* C9: get_batch_node_data called with an empty key list returns an empty
\* map and issues no query on the session.
C9_EmptyKeyList ==
    (pc = "batch_done" /\ args.node_ids = {}) =>
        (ret = EmptyMap /\ queries = {})

\* the call was made with no key on a store that holds nodes of the label
C9_Witness ==
    /\ pc = "batch_done"
    /\ args.node_ids = {}
    /\ \E n \in nodes[args.session] : n.label = args.label

\* the entities of the label that a key identifies: one of the candidate
\* properties renders to the key (the map is keyed by str(record['id']))
MatchingEntities(store, label, k) ==
    {n \in store : /\ n.label = label
                   /\ \E p \in Range(batch_id_properties(label)) :
                         p \in DOMAIN n.props /\ PyStr(n.props[p]) = k}

\* C10: for a non-empty key list the returned map has an entry for every
\* requested key, the property map of the matching entity when one exists
\* on that side and null when none exists (stated here for the calls in
\* which no query attempt failed).
C10_Claim ==
    (pc = "batch_done" /\ args.node_ids # {} /\ args.failing = {}) =>
        /\ args.node_ids \subseteq DOMAIN ret
        /\ \A k \in args.node_ids :
              LET ents == MatchingEntities(nodes[args.session], args.label, k)
              IN IF ents = {} THEN ret[k] = None
                 ELSE ret[k] \in {Some(n.props) : n \in ents}

----------------------------------------------------------------------------
(* Claims on the cardinality counter *)

\* the true cardinalities of the store the call counted
TrueCount(t) ==
    IF args.kind = "node"
    THEN Cardinality({n \in nodes["source"] : n.label = t})
    ELSE IF t \in GraphRelTypes THEN rels["source"][t] ELSE 0

\* C6: the count reported for each node label is the number of nodes
\* carrying it and the count reported for each relationship type is the
\* number of relationships of that type, on the combined-query path and on
\* the per-type path alike (stated for the calls whose per-type queries all
\* succeed).
C6_Claim ==
    (pc = "count_done" /\ ~ret.raised /\ args.fail.single = {}) =>
        \A t \in DOMAIN ret.counts : ret.counts[t] = TrueCount(t)

\* C7: in PWC-only mode the types of the returned count map are exactly the
\* allow-list, and an allow-listed type absent from the discovered schema
\* is reported with count 0.
C7_ScopedKeys ==
    (pc = "count_done" /\ args.pwc_only /\ ~ret.raised) =>
        LET allow == IF args.kind = "node" THEN Range(PWC_NODE_TYPES)
                     ELSE Range(PWC_RELATIONSHIP_TYPES)
        IN /\ DOMAIN ret.counts = allow
           /\ \A t \in allow : TrueCount(t) = 0 => ret.counts[t] = 0

\* a scoped count of a store holding a type outside the allow-list and
\* lacking an allow-listed one
C7_Witness ==
    /\ pc = "count_done" /\ args.pwc_only /\ ~ret.raised
    /\ args.kind = "node"
    /\ \E n \in nodes["source"] : n.label = "Widget"
    /\ \E n \in nodes["source"] : n.label = "Dataset"
    /\ ret.counts["Task"] = 0

\* C8: a failure of the schema-discovery query is not fatal: the discovered
\* set is taken as empty and the counting operation still returns a count
\* map.
C8_Claim ==
    (pc = "count_done" /\ args.fail.discovery) => ~ret.raised

----------------------------------------------------------------------------
(* Claims on the comparator *)

\* no two nodes of one label share the rendering of an identifying property
KeysUnique(store) ==
    \A n1, n2 \in store :
        (n1 # n2 /\ n1.label = n2.label) =>
            \A p \in DOMAIN n1.props \cap DOMAIN n2.props \cap
                     Range(batch_id_properties(n1.label)) :
                PyStr(n1.props[p]) # PyStr(n2.props[p])

\* C1: for two endpoints holding identical content full_comparison reports
\* identical = true and every per-type comparison has no different node, none
\* missing in target and none missing in source, in sampled and in full-diff
\* mode, whatever the type of the identifying values (stated for the runs in
\* which no query raises, over stores whose identifiers are unique).
C1_Claim ==
    (/\ pc = "Done"
     /\ nodes["source"] = nodes["target"] /\ rels["source"] = rels["target"]
     /\ KeysUnique(nodes["source"])) =>
        /\ ret.summary.identical
        /\ \A l \in DOMAIN ret.sample_comparisons :
              /\ ret.sample_comparisons[l].different_nodes = 0
              /\ ret.sample_comparisons[l].missing_in_target = 0
              /\ ret.sample_comparisons[l].missing_in_source = 0

\* C2: summary.identical is true exactly when the total node counts match,
\* the total relationship counts match, no type differs in its node count,
\* none in its relationship count, and no TypeComparison has a different,
\* missing-in-target or missing-in-source entity; each of these facts is in
\* the summary with its own value.
C2_SummaryConjunction ==
    pc = "Done" =>
        LET sm == ret.summary
            nc == ret.node_comparison
            rc == ret.relationship_comparison
            tc == ret.sample_comparisons
            nodes_total == SumCounts(nc.source_counts) = SumCounts(nc.target_counts)
            rels_total == SumCounts(rc.source_counts) = SumCounts(rc.target_counts)
            node_types == \A t \in DOMAIN nc.source_counts \cup DOMAIN nc.target_counts :
                              CountOf(nc.source_counts, t) = CountOf(nc.target_counts, t)
            rel_types == \A t \in DOMAIN rc.source_counts \cup DOMAIN rc.target_counts :
                             CountOf(rc.source_counts, t) = CountOf(rc.target_counts, t)
            content == \E l \in DOMAIN tc : \/ tc[l].different_nodes > 0
                                            \/ tc[l].missing_in_target > 0
                                            \/ tc[l].missing_in_source > 0
        IN /\ sm.total_nodes.match = nodes_total
           /\ sm.total_relationships.match = rels_total
           /\ sm.node_types_match = node_types
           /\ sm.relationship_types_match = rel_types
           /\ sm.sample_differences_found = content
           /\ sm.identical = (nodes_total /\ rels_total /\ node_types /\ rel_types /\ ~content)

\* a run ended with equal counts of every kind and a key present in target
\* only: the verdict rests on the content comparison alone
C2_Witness ==
    /\ pc = "Done"
    /\ ret.summary.total_nodes.match /\ ret.summary.node_types_match
    /\ ret.summary.total_relationships.match
    /\ ~ret.summary.identical
    /\ \E l \in DOMAIN ret.sample_comparisons :
          /\ ret.sample_comparisons[l].missing_in_source > 0
          /\ ret.sample_comparisons[l].different_nodes = 0
          /\ ret.sample_comparisons[l].missing_in_target = 0

\* the labels of the count table and those among them the source counts 0
CountedLabels ==
    DOMAIN ret.node_comparison.source_counts \cup DOMAIN ret.node_comparison.target_counts
EmptyInSource ==
    {l \in CountedLabels : CountOf(ret.node_comparison.source_counts, l) = 0}
ContentQueries(l) ==
    {q \in queries : q.label = l /\ q.kind \in {"ids", "batch", "detail"}}

\* C11: a label whose source count is 0 gets no content comparison (no key
\* listing, batch fetch or single fetch is issued for it and it has no
\* TypeComparison), it is in the count table with the counts of both sides,
\* it is in the count-level missing_in_source exactly when its target count
\* is positive, and the run never fails inside the loop over the labels.
C11_EmptySourceSkipped ==
    /\ pc \in {"CompareTypes", "Done"} =>
          \A l \in EmptyInSource :
             LET nc == ret.node_comparison
                 tcount == CountOf(nc.target_counts, l)
             IN /\ ContentQueries(l) = {}
                /\ l \notin DOMAIN ret.sample_comparisons
                /\ cur.label # l
                /\ IF tcount = 0 THEN l \in nc.identical_counts
                   ELSE /\ l \in DOMAIN nc.differences
                        /\ nc.differences[l].source = 0
                        /\ nc.differences[l].target = tcount
                /\ (l \in nc.missing_in_source) <=> (tcount > 0)
                /\ l \notin nc.missing_in_target
    /\ pc = "Failed" => (ret.sample_comparisons = EmptyMap /\ cur = NoCur)

\* a run ended in which one label was compared, one held by the target only
\* was skipped and one empty on both sides was skipped
C11_Witness ==
    /\ pc = "Done"
    /\ DOMAIN ret.sample_comparisons # {}
    /\ \E l \in EmptyInSource : CountOf(ret.node_comparison.target_counts, l) > 0
    /\ \E l \in EmptyInSource : CountOf(ret.node_comparison.target_counts, l) = 0
    /\ progress_bar.n = 2 + Cardinality(CountedLabels)

\* the keys a TypeComparison has given a verdict
Verdicts(c) == c.identical_nodes + c.different_nodes + c.missing_in_target

\* C12: during and after the chunk loop of a type's content comparison,
\* identical_nodes + different_nodes + missing_in_target is at most
\* total_compared, the number of source keys selected for comparison.
C12_VerdictsBounded ==
    /\ cur # NoCur => Verdicts(cur.comparison) <= cur.comparison.total_compared
    /\ \A l \in DOMAIN ret.sample_comparisons :
          Verdicts(ret.sample_comparisons[l]) <= ret.sample_comparisons[l].total_compared

\* between two chunks: one of two selected keys has its verdict
C12_Witness ==
    /\ pc = "CompareTypes" /\ cur # NoCur
    /\ cur.comparison.total_compared = 2
    /\ Verdicts(cur.comparison) = 1
    /\ Cardinality(cur.compare_ids) = 1

\* what C13 asks of one TypeComparison in sampled mode
SampledComparison(c) ==
    /\ c.total_compared <= args.sample_size
    /\ c.missing_in_source = 0
    /\ \A d \in c.differences : d.status # "missing_in_source"

\* C13: in sampled mode (full_diff = false) no more than sample_size keys
\* are compared for a type, the keys of the target are never listed,
\* missing_in_source is 0 and no difference has status missing_in_source.
C13_SampledMode ==
    ~args.full_diff =>
        /\ cur # NoCur => (SampledComparison(cur.comparison) /\ cur.target_only_ids = {})
        /\ \A l \in DOMAIN ret.sample_comparisons :
              SampledComparison(ret.sample_comparisons[l])
        /\ \A q \in queries : ~(q.side = "target" /\ q.kind \in {"ids", "detail"})

\* a sampled run ended on a source with more keys than the sample, the
\* slice having cut the keys down to sample_size
C13_Witness ==
    /\ pc = "Done" /\ ~args.full_diff
    /\ \E n1, n2 \in nodes["source"], n3 \in nodes["target"] :
          /\ n1.label = "Dataset" /\ n2.label = "Dataset" /\ n3.label = "Dataset"
          /\ "id" \in DOMAIN n1.props \cap DOMAIN n2.props \cap DOMAIN n3.props
          /\ n1.props["id"] = StrVal("1") /\ n2.props["id"] = StrVal("2")
          /\ n3.props["id"] = StrVal("2") /\ Cardinality(nodes["target"]) = 1
    /\ "Dataset" \in DOMAIN ret.sample_comparisons
    /\ ret.sample_comparisons["Dataset"].total_compared = args.sample_size

\* the nodes of a label at an endpoint and the property that identifies them
\* first (the one the key listing tries first)
NodesOf(side, l) == {n \in nodes[side] : n.label = l}
FirstKey(l) == ids_id_properties(l)[1]

\* every node of the label carries the identifying property and no two
\* nodes of one side agree on it
Keyed(l) ==
    \A side \in Sides :
        /\ \A n \in NodesOf(side, l) : FirstKey(l) \in DOMAIN n.props
        /\ \A n1, n2 \in NodesOf(side, l) :
              n1 # n2 => PyStr(n1.props[FirstKey(l)]) # PyStr(n2.props[FirstKey(l)])

\* the keys of the source entities that the target lacks
LackingInTarget(l) ==
    {PyStr(n.props[FirstKey(l)]) :
        n \in {m \in NodesOf("source", l) :
                 \A t \in NodesOf("target", l) :
                     t.props[FirstKey(l)] # m.props[FirstKey(l)]}}

ReportedDifference(l) ==
    IF l \in DOMAIN ret.node_comparison.differences
    THEN ret.node_comparison.differences[l].difference ELSE 0

\* C14: in full-diff mode, for a type whose entities are keyed and of which
\* the target lacks exactly those with keys in M, the node-count difference
\* reported is target count - source count, missing_in_target is |M| and
\* the differences hold exactly one missing_in_target entry per key of M.
C14_Claim ==
    (pc = "Done" /\ args.full_diff) =>
        \A l \in DOMAIN ret.sample_comparisons :
            Keyed(l) =>
                LET c == ret.sample_comparisons[l]
                    M == LackingInTarget(l)
                    entries == {d \in c.differences : d.status = "missing_in_target"}
                IN /\ ReportedDifference(l) =
                         Cardinality(NodesOf("target", l)) - Cardinality(NodesOf("source", l))
                   /\ c.missing_in_target = Cardinality(M)
                   /\ {d.id : d \in entries} = M
                   /\ Cardinality(entries) = Cardinality(M)

\* the keys of the target entities of a keyed label that the source lacks
TargetOnlyKeys(l) ==
    {PyStr(n.props[FirstKey(l)]) : n \in NodesOf("target", l)}
        \ {PyStr(n.props[FirstKey(l)]) : n \in NodesOf("source", l)}

\* C15: in full-diff mode the missing_in_source count of a type is
\* |targetKeys - sourceKeys| capped at the reporting limit and equals the
\* number of missing_in_source entries of its differences; one key present
\* in target only gives exactly one such entry.
C15_Claim ==
    (pc = "Done" /\ args.full_diff) =>
        \A l \in DOMAIN ret.sample_comparisons :
            Keyed(l) =>
                LET c == ret.sample_comparisons[l]
                    entries == {d \in c.differences : d.status = "missing_in_source"}
                    only == Cardinality(TargetOnlyKeys(l))
                IN /\ c.missing_in_source = Min(only, ReportLimit)
                   /\ c.missing_in_source = Cardinality(entries)
                   /\ only = 1 => Cardinality(entries) = 1

----------------------------------------------------------------------------
(* Claims on the diff CLI *)

\* a comparison was completed and its summary says identical
CompletedIdentical == ret.summary # EmptyMap /\ ret.summary.identical

\* C16: the diff CLI exits with 0 only after a completed comparison whose
\* summary says identical; a difference, a connection failure, a missing
\* target URI and a configuration that cannot be loaded all end with 1.
C16_Claim ==
    pc = "Exited" =>
        /\ exit_code = 0 => CompletedIdentical
        /\ ~CompletedIdentical => exit_code = 1

\* the log entries of the queries of one type's content comparison that
\* raised, and of the schema-discovery queries of the counts that raised
RaisedFor(l) ==
    {q \in queries : q.label = l /\
                     q.kind \in {"ids_raised", "batch_raised", "detail_raised", "count_raised"}}
DiscoveryRaised ==
    {q \in queries : q.kind = "schema_raised" /\ q.prop \in {"node", "relationship"}}

\* C17: a failure confined to one type (a query raising while its keys are
\* resolved or its entities fetched) does not end the run: the run fails
\* only when a schema-discovery query of the counts raised, before any type
\* is compared, and a run that ends returns the counts, the summary and a
\* comparison for every type the source holds, the failing one included.
C17_TypeFailureAbsorbed ==
    /\ pc = "Failed" =>
          /\ DiscoveryRaised # {}
          /\ \A l \in PoolLabels : RaisedFor(l) = {}
          /\ ret.sample_comparisons = EmptyMap
    /\ pc = "Done" =>
          /\ DOMAIN ret.sample_comparisons =
                {l \in CountedLabels : CountOf(ret.node_comparison.source_counts, l) > 0}
          /\ ret.summary # EmptyMap
          /\ DiscoveryRaised = {}

\* a run ended in which a query of the Dataset comparison raised and the
\* Paper nodes were compared and found identical all the same
C17_Witness ==
    /\ pc = "Done"
    /\ \E q \in RaisedFor("Dataset") : q.kind \in {"ids_raised", "batch_raised"}
    /\ RaisedFor("Paper") = {}
    /\ {"Dataset", "Paper"} \subseteq DOMAIN ret.sample_comparisons
    /\ ret.sample_comparisons["Paper"].identical_nodes = 1
    /\ ret.node_comparison.source_counts = [l \in {"Dataset", "Paper"} |-> 1]

----------------------------------------------------------------------------
(* Claims on selective clearing *)

IsPwcNode(n) == n.labels \cap Range(pwc_node_types) # {}
\* the relationships of a graph between two nodes that carry no PWC label
ForeignRels(g) ==
    {r \in g.rels : \A n \in g.nodes : (n.id \in {r.from, r.to}) => ~IsPwcNode(n)}

\* C18: clear_pwc_data_only removes every node labelled Paper, Repository,
\* Dataset, Task or Author and leaves every node without these labels and
\* every relationship between two such nodes as it was, whatever the
\* database held (stated for the calls in which no query raises).
C18_Claim ==
    (pc = "clear_done" /\ faults = MaxFaults) =>
        /\ \A n \in nodes : ~IsPwcNode(n)
        /\ \A n \in args.nodes : ~IsPwcNode(n) => n \in nodes
        /\ ForeignRels(args) \subseteq rels

----------------------------------------------------------------------------
(* Claims on the offline loader *)

\* the steps of load_to_new_neo4j_instance and of load_and_save_to_neo4j
\* in which the destructive flag of the operation is set
DropRequested ==
    \/ pc \in {"new_instance", "prepare_target"} /\ args.drop_all_target
    \/ pc \in {"load_and_save", "load_phases"} /\ cur.drop_all

TypedExactly == args.typed = confirmation_text

ClearAllCalls == {q \in queries : q.call = "clear_all_data"}
LoadCalls == {q \in queries : q.call \in {"batch_save_datasets", "batch_save_papers"}}

\* C19: the drop-all operations delete data only after the user typed
\* exactly DELETE ALL DATA: clear_all_data is called only then, and with any
\* other input no step of the operation changes the database, nothing is
\* loaded, and the operation returns the empty result.
C19_Claim ==
    /\ [](ClearAllCalls # {} => TypedExactly)
    /\ [][(DropRequested /\ ~TypedExactly) =>
            /\ nodes' = nodes
            /\ rels' = rels
            /\ LoadCalls' = {}
            /\ pc' = "pipeline_done" => ret' = "empty"]_vars

\* the combinations the claim lists as conflicting
ConflictingFlags ==
    \/ args.drop_all /\ args.clear_all
    \/ args.drop_all_target /\ args.clear_target
    \/ args.drop_all_target /\ args.new_neo4j_uri = ""

\* C20: the loader CLI rejects the conflicting flag combinations, the
\* process ending with a non-zero exit status and no call made on a graph,
\* whereas a command line without conflict, such as a single --clear-all,
\* is accepted: it ends with status 0, and with a data directory it goes on
\* to the graph.
C20_Claim ==
    pc = "Exited" =>
        IF ConflictingFlags
        THEN exit_code # 0 /\ queries = {}
        ELSE exit_code = 0 /\ (args.data_dir = "given" => queries # {})

----------------------------------------------------------------------------
(* Claims on the identifying property *)

\* the property get_node_ids_by_label adopts for a label on a store: the
\* first candidate that some node of the label carries ("none" without one)
Adopted(store, label) ==
    LET props == ids_id_properties(label)
        having == {i \in DOMAIN props : IdRows(store, label, props[i]) # {}}
    IN IF having = {} THEN "none"
       ELSE props[CHOOSE i \in having : \A j \in having : i <= j]

BatchProps == {q.prop : q \in {x \in queries : x.kind = "batch"}}

\* C21: get_batch_node_data fetches a chunk with the property adopted for
\* the label and with no other: it queries that property only, and when the
\* property matches no key of the chunk every key is reported as not found
\* (stated for the calls in which no query attempt failed).
C21_Claim ==
    (/\ pc = "batch_done"
     /\ args.node_ids # {}
     /\ args.failing = {}
     /\ Adopted(nodes[args.session], args.label) # "none") =>
        LET p == Adopted(nodes[args.session], args.label)
        IN /\ BatchProps \subseteq {p}
           /\ BatchRows(nodes[args.session], args.label, p, args.node_ids) = {}
                 => \A k \in args.node_ids : ret[k] = None

\* the two entities of a "different" entry are identified by one property:
\* some candidate renders to the entry's key on both of them
IdentifiedAlike(l, d) ==
    \E p \in Range(batch_id_properties(l)) :
        /\ p \in DOMAIN d.source_data[1] /\ p \in DOMAIN d.target_data[1]
        /\ PyStr(d.source_data[1][p]) = d.id
        /\ PyStr(d.target_data[1][p]) = d.id

SameCandidateOrder(l) ==
    /\ ids_id_properties(l) = batch_id_properties(l)
    /\ ids_id_properties(l) = detail_id_properties

SameKeyProperty(l) ==
    (/\ args.full_diff
     /\ Adopted(nodes["source"], l) # "none"
     /\ Adopted(nodes["target"], l) # "none") =>
        Adopted(nodes["source"], l) = Adopted(nodes["target"], l)

\* C22: within the comparison of a label one identifying property is used
\* throughout: the key sets of the two sides are values of the same
\* property, the entities compared under a key are identified by the same
\* property on both sides, and the candidate order of the label is the same
\* in the key listing, the batch fetch and the single fetch.
C22_Claim ==
    pc = "Done" =>
        \A l \in DOMAIN ret.sample_comparisons :
            /\ SameKeyProperty(l)
            /\ \A d \in ret.sample_comparisons[l].differences :
                  d.status = "different" => IdentifiedAlike(l, d)
            /\ SameCandidateOrder(l)

\* the positions of the candidates whose query returns rows, for the call
\* recorded in args
Yielding ==
    LET props == ids_id_properties(args.label)
    IN {i \in DOMAIN props :
          /\ props[i] \notin args.failing
          /\ IdRows(nodes[args.session], args.label, props[i]) # {}}

IdsProps == {q.prop : q \in {x \in queries : x.kind = "ids"}}

\* C23: get_node_ids_by_label tries the candidates in their order and
\* returns the values of the first one whose bounded query yields rows, at
\* most batch_size of them; it queries no later candidate, skips a candidate
\* whose query fails, and returns the empty set without raising when no
\* candidate yields a value.
C23_FirstYieldingCandidate ==
    pc = "ids_done" =>
        LET props == ids_id_properties(args.label)
        IN /\ ~ret.raised
           /\ IF Yielding = {}
              THEN ret.ids = {} /\ IdsProps = Range(props)
              ELSE LET first == CHOOSE i \in Yielding : \A j \in Yielding : i <= j
                       values == {PyStr(n.props[props[first]]) :
                                    n \in IdRows(nodes[args.session], args.label, props[first])}
                       rows == IdRows(nodes[args.session], args.label, props[first])
                   IN /\ IdsProps = {props[j] : j \in 1..first}
                      /\ ret.ids # {}
                      /\ ret.ids \subseteq values
                      /\ Cardinality(ret.ids) <= args.batch_size
                      /\ Cardinality(rows) <= args.batch_size => ret.ids = values

\* the first candidate raised, the next two matched nothing and the last
\* one gave the key; and a page of one key was taken out of two
C23_Witness ==
    /\ pc = "ids_done"
    /\ args.label = "Dataset"
    /\ \/ /\ args.failing = {"id"}
          /\ \E n \in nodes[args.session] : n.label = "Dataset" /\ "id" \in DOMAIN n.props
          /\ IdsProps = {"id", "arxiv_id", "url", "name"}
          /\ ret.ids = {"1"}
       \/ /\ args.failing = {}
          /\ args.batch_size = 1
          /\ ret.ids = {"2"}
          /\ \E n \in nodes[args.session] :
                n.label = "Dataset" /\ "id" \in DOMAIN n.props /\ n.props["id"] = StrVal("1")

----------------------------------------------------------------------------
(* Claims on the count fallback *)

\* the types the call recorded in args lists, and their matches
ListedInCall ==
    IF args.kind = "node"
    THEN ListedTypes(PWC_NODE_TYPES, db_labels(nodes["source"]), args.pwc_only)
    ELSE ListedTypes(PWC_RELATIONSHIP_TYPES, db_relationshipTypes(rels["source"]),
                     args.pwc_only)

MatchesInCall ==
    IF args.kind = "node" THEN NodeMatches(nodes["source"])
    ELSE RelMatches(rels["source"])

CombinedFailed == pc = "count_done" /\ ~args.fail.discovery /\ args.fail.combined

\* C24: when the combined count query fails, one count query per listed
\* type is issued; a per-type query that fails leaves 0 for its type only,
\* the other types keep what their own query returned, and the call returns
\* a map with every listed type without raising.
C24_FallbackPerType ==
    CombinedFailed =>
        /\ ~ret.raised
        /\ ListedInCall \subseteq DOMAIN ret.counts
        /\ \A t \in ListedInCall :
              /\ \E q \in queries : q.kind = "count" /\ q.label = t
              /\ ret.counts[t] = IF t \in args.fail.single THEN 0
                                 ELSE SingleCount(MatchesInCall, t)

\* the combined query failed, the per-type query of one listed type failed
\* too and another listed type was still counted
C24_Witness ==
    /\ CombinedFailed
    /\ \E t1, t2 \in ListedInCall :
          /\ t1 \in args.fail.single /\ MatchesInCall[t1] > 0 /\ ret.counts[t1] = 0
          /\ t2 \notin args.fail.single /\ ret.counts[t2] > 0

----------------------------------------------------------------------------
(* Claims on the run of full_comparison *)

\* the steps from one phase to another that the claim allows; Summarize is
\* the step from CompareTypes to Done
PhaseSteps ==
    {<<"Init", "CountNodes">>,
     <<"CountNodes", "CountRelationships">>,
     <<"CountRelationships", "CompareTypes">>,
     <<"CompareTypes", "Done">>,
     <<"CountNodes", "Failed">>,
     <<"CountRelationships", "Failed">>,
     <<"CompareTypes", "Failed">>}

\* the counting of one kind has asked both sides for their types
Counted(kind) ==
    \A side \in Sides :
        \E q \in queries : q.side = side /\ q.kind = "schema" /\ q.prop = kind

\* a query of a counting call raised outside every try
Unrecoverable(qs) ==
    \E q \in qs : q.kind = "schema_raised" /\ q.prop \in {"node", "relationship"}

\* C25: a run of full_comparison passes through Init, CountNodes,
\* CountRelationships, CompareTypes, Summarize and Done in this order: the
\* node counts of both sides come before any relationship count, all counts
\* before any content query, the summary only after every type has been
\* compared or skipped; an unrecoverable error leads to Failed, which is
\* terminal, and never to Done.
C25_PhaseOrder ==
    /\ [][pc' # pc => <<pc, pc'>> \in PhaseSteps]_vars
    /\ [][Unrecoverable(queries') => pc' = "Failed"]_vars
    /\ [](/\ (\E q \in queries : q.prop = "relationship") =>
                (pc \notin {"Init", "CountNodes"} /\ Counted("node"))
          /\ (\E q \in queries : q.kind \in {"ids", "batch", "detail"}) =>
                (/\ pc \in {"CompareTypes", "Done", "Failed"}
                 /\ Counted("node") /\ Counted("relationship"))
          /\ ret.summary # EmptyMap => (pc = "Done" /\ todo = {} /\ cur = NoCur)
          /\ pc = "Done" => (ret.summary # EmptyMap /\ ~Unrecoverable(queries)))

\* the run failed while counting the relationships, after the node counts
\* of both sides
C25_Witness ==
    /\ pc = "Failed"
    /\ Counted("node")
    /\ \E q \in queries : q.kind = "schema_raised" /\ q.prop = "relationship"
    /\ \E l \in DOMAIN ret.node_comparison.source_counts :
          ret.node_comparison.source_counts[l] > 0

----------------------------------------------------------------------------
\* Claims on the differences list and on the progress displays

\* every TypeComparison the run holds: the one being built and the stored ones
TypeComparisons ==
    (IF cur = NoCur THEN {} ELSE {cur.comparison})
    \cup {ret.sample_comparisons[l] : l \in DOMAIN ret.sample_comparisons}

\* C26: the differences list of a TypeComparison never holds more than the
\* reporting limit of entries, whatever the number of different,
\* missing-in-target and missing-in-source entities of the type.
C26_Claim ==
    \A c \in TypeComparisons : Cardinality(c.differences) <= ReportLimit

\* the run has left full_comparison, by its return or by an exception
Exited == pc \in {"Done", "Failed"}

\* C28: every progress display the run opens, the overall bar and the
\* detailed bar of each type, is closed exactly once on every exit path: no
\* bar is ever closed twice, and when full_comparison is left, by its return
\* or by an exception of a type's comparison, every bar opened is closed.
C28_Claim ==
    /\ progress_bar.closed <= 1
    /\ progress_bar.detailed_closed <= progress_bar.detailed_opened
    /\ Exited => /\ progress_bar.closed = 1
                 /\ progress_bar.detailed_closed = progress_bar.detailed_opened

----------------------------------------------------------------------------
\* Claims on the connections of the diff tool

Opened(side, h) == HandleCalls(side, "opened", {h}) \subseteq queries
Closed(side, h) == HandleCalls(side, "closed", {h}) \subseteq queries

\* C29: every session and driver the diff tool opened is closed when the
\* process ends, on every path of main: after a successful comparison, when
\* the target connection fails after the source connected, and when
\* full_comparison raises.
C29_Claim ==
    pc = "Exited" =>
        \A side \in Sides, h \in Handles : Opened(side, h) => Closed(side, h)

----------------------------------------------------------------------------
\* Claims on the caches of the offline loader

\* the whole of a data file as a list, empty when the file cannot be read
FullDataset(key) == IF nodes[key] = None THEN << >> ELSE nodes[key][1]
LoadCalled == args.op \in Range(LoadFunctions)

\* C30: whatever calls were made before on the loader, a load_* call with a
\* positive limit L returns at most L records and one without a limit the
\* full dataset; clear_cache resets the five caches.
C30_Claim ==
    /\ (LoadCalled /\ args.limit # None /\ args.limit # Some(0))
          => Len(ret) <= args.limit[1]
    /\ (LoadCalled /\ args.limit = None) => ret = FullDataset(args.key)
    /\ args.op = "clear_cache" => cur = NoCaches

----------------------------------------------------------------------------
\* Claims on cancellation

\* C27: when a run is aborted in the middle of CompareTypes, the counts and
\* the per-type comparisons computed so far remain available to the caller
\* as a partial ComparisonResult.
C27_Claim ==
    pc = InterruptedIn["CompareTypes"] =>
        /\ Delivered # None
        /\ Delivered[1].node_comparison = ret.node_comparison
        /\ Delivered[1].relationship_comparison = ret.relationship_comparison
        /\ Delivered[1].sample_comparisons = ret.sample_comparisons
====
